---- MODULE Spec2Model ----
(***************************************************************************)
(* A model of plom.py (Probabilistic Learning on Manifolds).               *)
(*                                                                         *)
(* SpecDmaps: one call of _dmaps: the scale-separation rule for the         *)
(*            manifold dimension, the automatic search for epsilon (one    *)
(*            action per loop iteration), the m_override / first_evec      *)
(*            choice of the reduced basis.  Eigenvalues are integers; the  *)
(*            cutoff L is a ratio of integers; epsilon is counted in units *)
(*            of 1/81920, in which every value the search can form from    *)
(*            its probe lists is an integer.                               *)
(* SpecPca  : the eigenvalue truncation of one _pca call, for each of the  *)
(*            three methods; the cum_energy loop is one action per         *)
(*            iteration.  Eigenvalues are non-negative integers; the       *)
(*            energy is a ratio of integers.                               *)
(* SpecPipe : the orchestrator (run, run_dmaps, run_sampling and the stage *)
(*            wrappers they call) acting on the PLoM dictionary.  Matrices *)
(*            are symbolic terms: a term records which function produced a *)
(*            value from which arguments, so two values are equal exactly  *)
(*            when they were computed the same way from the same inputs.   *)
(*            Numerical failures inside a stage (singular matrices, shape  *)
(*            mismatches) are outside this specification.                  *)
(* SpecGet  : one call of get_samples on a dictionary with or without the  *)
(*            training and augmented sets.                                 *)
(* SpecIto  : _simulate_entire_ito: the step count, the walks one step per *)
(*            action when sequential and one walk per worker when          *)
(*            parallel, and the stacking of the walks' results.            *)
(* SpecScale: scale and _inverse_scale on matrices of binary floating-     *)
(*            point numbers with a short significand, every operation      *)
(*            rounded to nearest.                                          *)
(* SpecSearch: the calls of _dmaps with epsilon = 'auto', under weak       *)
(*            fairness of the call's steps.                                *)
(* SpecStep : one _simulate_ito_step on exact rationals.                   *)
(* SpecProj : one _sample_projection on small rational matrices, with numpy*)
(*            shapes.                                                      *)
(* SpecWeights: one _get_conditional_weights call, sequential or in        *)
(*            batches; exponentials are powers of two that underflow.      *)
(***************************************************************************)
EXTENDS Integers, Sequences, FiniteSets, TLC

VARIABLES
    plom_dict,  \* the PLoM dictionary built by initialize()
    pc,         \* position of the current call: a stage name, "idle", "done", "error"
    entry,      \* the entry point being executed
    trace,      \* stages the current call has executed so far, in order
    files,      \* files written so far (sequence of records)
    rng,        \* number of walks drawn so far from the global generator
    calls,      \* number of top-level calls made so far
    dm,         \* state of one _dmaps call (SpecDmaps)
    pk,         \* state of one _pca truncation (SpecPca)
    gs,         \* state of one get_samples call (SpecGet)
    ito,        \* state of one _simulate_entire_ito call (SpecIto)
    sc,         \* state of one scale / inverse scale round (SpecScale)
    sp,         \* state of one _simulate_ito_step call (SpecStep)
    pj,         \* state of one _sample_projection call (SpecProj)
    cw          \* state of one _get_conditional_weights call (SpecWeights)

vars == <<plom_dict, pc, entry, trace, files, rng, calls, dm, pk, gs, ito, sc, sp, pj, cw>>
pipeVars == <<plom_dict, pc, entry, trace, files, rng, calls>>
notPipeVars == <<dm, pk, gs, ito, sc, sp, pj, cw>>
notDmapsVars == <<plom_dict, pc, entry, trace, files, rng, calls, pk, gs, ito, sc, sp, pj, cw>>
notPcaVars == <<plom_dict, pc, entry, trace, files, rng, calls, dm, gs, ito, sc, sp, pj, cw>>
notGetVars == <<plom_dict, pc, entry, trace, files, rng, calls, dm, pk, ito, sc, sp, pj, cw>>
notItoVars == <<plom_dict, pc, entry, trace, files, rng, calls, dm, pk, gs, sc, sp, pj, cw>>
notStepVars == <<plom_dict, pc, entry, trace, files, rng, calls, dm, pk, gs, ito, sc, pj, cw>>
notProjVars == <<plom_dict, pc, entry, trace, files, rng, calls, dm, pk, gs, ito, sc, sp, cw>>
notWeightsVars == <<plom_dict, pc, entry, trace, files, rng, calls, dm, pk, gs, ito, sc, sp, pj>>
notScaleVars == <<plom_dict, pc, entry, trace, files, rng, calls, dm, pk, gs, ito, sp, pj, cw>>

(***************************************************************************)
(* Bounds of the model.                                                    *)
(***************************************************************************)
MaxCalls == 2
MaxSamples == 2
NTrain == 3
NEig == 4
MaxMu == 3
MaxInc == 8
NFeat == 3
MaxLam == 3

(***************************************************************************)
(* Optional values and symbolic terms.                                     *)
(***************************************************************************)
None == <<>>
Some(v) == <<v>>
IsNone(s) == s = <<>>
Get(s) == s[1]

Term(op, args, n) == [op |-> op, args |-> args, n |-> n]
T0(op) == Term(op, <<>>, 0)
T1(op, x) == Term(op, <<x>>, 0)
T2(op, x, y) == Term(op, <<x, y>>, 0)
T3(op, x, y, z) == Term(op, <<x, y, z>>, 0)

Ok(pd) == [ok |-> TRUE, pd |-> pd]
Raise(pd) == [ok |-> FALSE, pd |-> pd]

(***************************************************************************)
(* initialize(): the dictionary with every derived entry None.             *)
(***************************************************************************)
initialize(training, options, input) ==
    [ data    |-> [training |-> training, augmented |-> None,
                   reconst_training |-> None, rmse |-> None],
      input   |-> input,
      options |-> options,
      scaling |-> [training |-> None, centers |-> None, scales |-> None,
                   reconst_training |-> None, augmented |-> None],
      pca     |-> [training |-> None, scaled_evecs_inv |-> None,
                   scaled_evecs |-> None, evecs |-> None, mean |-> None,
                   eigvals |-> None, eigvals_trunc |-> None,
                   reconst_training |-> None, augmented |-> None],
      dmaps   |-> [training |-> None, eigenvectors |-> None,
                   eigenvalues |-> None, dimension |-> None, epsilon |-> None,
                   basis |-> None, reduced_basis |-> None, eps_vs_m |-> None],
      ito     |-> [Z0 |-> None, a |-> None, Zs |-> None, Zs_steps |-> None,
                   t |-> None],
      summary |-> None ]

(***************************************************************************)
(* scale(): reads data['training'], writes scaling training/centers/scales.*)
(* An unknown scaling_method leaves scaled_train unbound and raises.       *)
(***************************************************************************)
scale(pd) ==
    LET training == pd.data.training
        method   == pd.options.scaling_method
    IN  IF IsNone(training) \/ method \notin {"MinMax", "Normalization"}
        THEN Raise(pd)
        ELSE LET X == Get(training)
                 f == T0(method)
             IN  Ok([pd EXCEPT
                       !.scaling.training = Some(T2("scaled_train", f, X)),
                       !.scaling.centers  = Some(T2("centers", f, X)),
                       !.scaling.scales   = Some(T2("scales", f, X))])

(***************************************************************************)
(* inverse_scale(): X * scales + centers on the scaling reconstruction and *)
(* on the scaling augmented set, each only when present.                   *)
(***************************************************************************)
inverse_scale(pd) ==
    LET centers          == pd.scaling.centers
        scales           == pd.scaling.scales
        reconst_training == pd.scaling.reconst_training
        augmented        == pd.scaling.augmented
        bad == IsNone(centers) \/ IsNone(scales)
        pd1 == IF IsNone(reconst_training) THEN pd
               ELSE [pd EXCEPT !.data.reconst_training =
                       Some(T3("_inverse_scale", Get(reconst_training),
                               Get(centers), Get(scales)))]
        pd2 == IF IsNone(augmented) THEN pd1
               ELSE [pd1 EXCEPT !.data.augmented =
                       Some(T3("_inverse_scale", Get(augmented),
                               Get(centers), Get(scales)))]
    IN  IF ~IsNone(reconst_training) /\ bad THEN Raise(pd)
        ELSE IF ~IsNone(augmented) /\ bad THEN Raise(pd1)
        ELSE Ok(pd2)

(***************************************************************************)
(* pca(): the input is the scaled data when options['scaling'], else the   *)
(* raw training data; writes the seven entries of the PCA model.           *)
(***************************************************************************)
pca(pd) ==
    LET Xs == IF pd.options.scaling THEN pd.scaling.training
              ELSE pd.data.training
    IN  IF IsNone(Xs) THEN Raise(pd)
        ELSE LET X == Get(Xs)
                 se == IF pd.options.pca_scale_evecs THEN T0("scale_evecs")
                       ELSE T0("no_scale_evecs")
             IN  Ok([pd EXCEPT
                       !.pca.training         = Some(T2("X_pca", X, se)),
                       !.pca.scaled_evecs_inv = Some(T1("scaled_eigvecs_inv", X)),
                       !.pca.scaled_evecs     = Some(T1("scaled_eigvecs", X)),
                       !.pca.evecs            = Some(T1("eigvecs", X)),
                       !.pca.mean             = Some(T1("means", X)),
                       !.pca.eigvals          = Some(T1("eigvals", X)),
                       !.pca.eigvals_trunc    = Some(T1("eigvals_trunc", X))])

(***************************************************************************)
(* inverse_pca(): maps pca['reconst_training'] (or, when that is None,     *)
(* pca['training']) and pca['augmented'] back; the results go to the       *)
(* scaling entries when options['scaling'], else to the data entries.      *)
(***************************************************************************)
inverse_pca(pd) ==
    LET eigvecs == IF pd.options.pca_scale_evecs THEN pd.pca.scaled_evecs_inv
                   ELSE pd.pca.evecs
        mean    == pd.pca.mean
        scaling == pd.options.scaling
        reconst_training == IF ~IsNone(pd.pca.reconst_training)
                            THEN pd.pca.reconst_training
                            ELSE pd.pca.training
        augmented == pd.pca.augmented
        bad == IsNone(eigvecs) \/ IsNone(mean)
        Xr  == Some(T3("_inverse_pca", Get(reconst_training), Get(eigvecs),
                       Get(mean)))
        Xa  == Some(T3("_inverse_pca", Get(augmented), Get(eigvecs),
                       Get(mean)))
        pd1 == IF IsNone(reconst_training) THEN pd
               ELSE IF scaling
                    THEN [pd EXCEPT !.scaling.reconst_training = Xr]
                    ELSE [pd EXCEPT !.data.reconst_training = Xr]
        pd2 == IF IsNone(augmented) THEN pd1
               ELSE IF scaling
                    THEN [pd1 EXCEPT !.scaling.augmented = Xa]
                    ELSE [pd1 EXCEPT !.data.augmented = Xa]
    IN  IF ~IsNone(reconst_training) /\ bad THEN Raise(pd)
        ELSE IF ~IsNone(augmented) /\ bad THEN Raise(pd1)
        ELSE Ok(pd2)

(***************************************************************************)
(* _get_dmaps_optimal_dimension's caller in _dmaps: the dimension used is  *)
(* m_override when it is positive, else the computed m_opt.                *)
(***************************************************************************)
DmapsM_ignore_override(m_opt, m_override) == m_opt

DmapsM(m_opt, m_override) == IF m_override > 0 THEN m_override ELSE m_opt

(***************************************************************************)
(* _dmaps, choice of the reduced basis: first column s, end column e       *)
(* (exclusive) and the dimension m that is returned.                       *)
(***************************************************************************)
DmapsSlice_no_increment(m, first_evec, m_override) ==
    IF first_evec
    THEN [s |-> 0, e |-> m, m |-> m]
    ELSE [s |-> 1, e |-> m + 1, m |-> m]

DmapsSlice(m, first_evec, m_override) ==
    IF first_evec
    THEN LET m1 == IF m_override = 0 THEN m + 1 ELSE m
         IN  [s |-> 0, e |-> m1, m |-> m1]
    ELSE [s |-> 1, e |-> m + 1, m |-> m]

(***************************************************************************)
(* Python's basis[:, s:e] on n columns: the column indices kept.           *)
(***************************************************************************)
SliceCols(n, s, e) == {c \in 0..(n - 1) : s <= c /\ c < e}

(***************************************************************************)
(* Variant of dmaps() that reads the matrix options['projection_source']   *)
(* names.                                                                  *)
(***************************************************************************)
dmaps_from_source(pd, m_opt) ==
    LET Xs == IF pd.options.projection_source = "pca" THEN pd.pca.training
              ELSE IF pd.options.projection_source = "scaling"
                   THEN pd.scaling.training
              ELSE pd.data.training
        first_evec == pd.options.dmap_first_evec
        m_override == pd.options.dmaps_m_override
        sl == DmapsSlice(DmapsM(m_opt, m_override), first_evec, m_override)
    IN  IF IsNone(Xs) THEN Raise(pd)
        ELSE LET X == Get(Xs)
                 basis == T1("basis", X)
                 red_basis == Term("red_basis", <<basis>>,
                                   Cardinality(SliceCols(NTrain, sl.s, sl.e)))
             IN  Ok([pd EXCEPT
                       !.dmaps.eigenvectors  = Some(T1("eigvecs", X)),
                       !.dmaps.eigenvalues   = Some(T1("eigvals", X)),
                       !.dmaps.dimension     = Some(sl.m),
                       !.dmaps.epsilon       = Some(T1("epsilon", X)),
                       !.dmaps.basis         = Some(basis),
                       !.dmaps.reduced_basis = Some(red_basis),
                       !.dmaps.training      = Some(red_basis),
                       !.dmaps.eps_vs_m      = Some(T1("eps_vs_m", X))])

(***************************************************************************)
(* dmaps(): the input is the first present one of the PCA data, the scaled *)
(* data and the raw data.  m_opt is the dimension the eigenvalues of that  *)
(* input give under the L rule.                                            *)
(***************************************************************************)
dmaps(pd, m_opt) ==
    LET Xs == IF ~IsNone(pd.pca.training) THEN pd.pca.training
              ELSE IF ~IsNone(pd.scaling.training) THEN pd.scaling.training
              ELSE pd.data.training
        first_evec == pd.options.dmap_first_evec
        m_override == pd.options.dmaps_m_override
        sl == DmapsSlice(DmapsM(m_opt, m_override), first_evec, m_override)
    IN  IF IsNone(Xs) THEN Raise(pd)
        ELSE LET X == Get(Xs)
                 basis == T1("basis", X)
                 red_basis == Term("red_basis", <<basis>>,
                                   Cardinality(SliceCols(NTrain, sl.s, sl.e)))
             IN  Ok([pd EXCEPT
                       !.dmaps.eigenvectors  = Some(T1("eigvecs", X)),
                       !.dmaps.eigenvalues   = Some(T1("eigvals", X)),
                       !.dmaps.dimension     = Some(sl.m),
                       !.dmaps.epsilon       = Some(T1("epsilon", X)),
                       !.dmaps.basis         = Some(basis),
                       !.dmaps.reduced_basis = Some(red_basis),
                       !.dmaps.training      = Some(red_basis),
                       !.dmaps.eps_vs_m      = Some(T1("eps_vs_m", X))])

(***************************************************************************)
(* The matrix selected by options['projection_source'] and the basis       *)
(* selected by options['projection_target'].                               *)
(***************************************************************************)
ProjectionSource(pd) ==
    IF pd.options.projection_source = "pca" THEN pd.pca.training
    ELSE IF pd.options.projection_source = "scaling" THEN pd.scaling.training
    ELSE pd.data.training

ProjectionTarget(pd) ==
    IF pd.options.projection_target = "dmaps" THEN pd.dmaps.reduced_basis
    ELSE pd.pca.training

(***************************************************************************)
(* Variant of sample_projection() that raises when [H] or [g] is None.     *)
(***************************************************************************)
sample_projection_strict(pd) ==
    LET H == ProjectionSource(pd)
        g == ProjectionTarget(pd)
    IN  IF pd.options.projection_target \notin {"dmaps", "pca"} THEN Raise(pd)
        ELSE IF IsNone(H) \/ IsNone(g) THEN Raise(pd)
        ELSE Ok([pd EXCEPT !.ito.Z0 = Some(T2("Z0", Get(H), Get(g))),
                           !.ito.a  = Some(T1("a", Get(g)))])

(***************************************************************************)
(* sample_projection(): Z0 and a from [H] and [g]; skipped (no error, no   *)
(* write) when either is None.                                             *)
(***************************************************************************)
sample_projection(pd) ==
    LET H == ProjectionSource(pd)
        g == ProjectionTarget(pd)
    IN  IF pd.options.projection_target \notin {"dmaps", "pca"} THEN Raise(pd)
        ELSE IF IsNone(H) THEN Ok(pd)
        ELSE IF IsNone(g) THEN Ok(pd)
        ELSE Ok([pd EXCEPT !.ito.Z0 = Some(T2("Z0", Get(H), Get(g))),
                           !.ito.a  = Some(T1("a", Get(g)))])

(***************************************************************************)
(* Variant of sampling() that also moves Z0 to the last sample drawn.      *)
(***************************************************************************)
sampling_moves_Z0(pd, r) ==
    LET X     == ProjectionSource(pd)
        basis == ProjectionTarget(pd)
        Z     == pd.ito.Z0
        a     == pd.ito.a
        num_samples == pd.input.ito_num_samples
    IN  IF \/ IsNone(X) \/ IsNone(basis) \/ IsNone(Z) \/ IsNone(a)
        THEN Raise(pd)
        ELSE LET w == <<Get(Z), Get(X), Get(basis), Get(a)>>
                 Zs == [i \in 1..num_samples |-> Term("walk", w, r + i)]
             IN  Ok([pd EXCEPT
                       !.ito.Zs = Some(Zs),
                       !.ito.Zs_steps = Some([i \in 1..num_samples |->
                                           Term("steps", w, r + i)]),
                       !.ito.t  = Some(T0("t")),
                       !.ito.Z0 = IF num_samples > 0
                                  THEN Some(Zs[num_samples]) ELSE Z])

(***************************************************************************)
(* sampling(): num_samples walks from Z0, each with its own draws from the *)
(* global generator; r is the number of walks drawn before this call.      *)
(***************************************************************************)
sampling(pd, r) ==
    LET X     == ProjectionSource(pd)
        basis == ProjectionTarget(pd)
        Z     == pd.ito.Z0
        a     == pd.ito.a
        num_samples == pd.input.ito_num_samples
    IN  IF \/ pd.options.projection_target \notin {"dmaps", "pca"}
           \/ IsNone(X) \/ IsNone(basis) \/ IsNone(Z) \/ IsNone(a)
        THEN Raise(pd)
        ELSE LET w == <<Get(Z), Get(X), Get(basis), Get(a)>>
             IN  Ok([pd EXCEPT
                       !.ito.Zs = Some([i \in 1..num_samples |->
                                           Term("walk", w, r + i)]),
                       !.ito.Zs_steps = Some([i \in 1..num_samples |->
                                           Term("steps", w, r + i)]),
                       !.ito.t  = Some(T0("t"))])

(***************************************************************************)
(* Variant of inverse_sample_projection() whose last branch stores the     *)
(* reconstruction under data['training'].                                  *)
(***************************************************************************)
inverse_sample_projection_rebinds(pd) ==
    LET g  == ProjectionTarget(pd)
        Zs == pd.ito.Zs
        Z0 == pd.ito.Z0
        X_augmented ==
            IF IsNone(Zs) THEN None
            ELSE Some(Term("vstack",
                           [i \in 1..Len(Get(Zs)) |->
                              T2("_inverse_sample_projection", Get(Zs)[i], Get(g))],
                           0))
        X_reconst == Some(T2("_inverse_sample_projection", Get(Z0), Get(g)))
        source == pd.options.projection_source
    IN  IF IsNone(g) THEN Ok(pd)
        ELSE IF ~IsNone(Zs) /\ Len(Get(Zs)) = 0 THEN Raise(pd)
        ELSE IF IsNone(Z0) THEN Raise(pd)
        ELSE IF source = "pca"
             THEN Ok([pd EXCEPT !.pca.augmented = X_augmented,
                                !.pca.reconst_training = X_reconst])
        ELSE IF source = "scaling"
             THEN Ok([pd EXCEPT !.scaling.augmented = X_augmented,
                                !.scaling.reconst_training = X_reconst])
        ELSE Ok([pd EXCEPT !.data.augmented = X_augmented,
                           !.data.training = X_reconst])

(***************************************************************************)
(* inverse_sample_projection(): returns at once when [g] is None; stacks   *)
(* g.Zs^T over the samples (None when there are no samples), computes      *)
(* g.Z0^T, and writes both to the entries of the projection source.        *)
(***************************************************************************)
inverse_sample_projection(pd) ==
    LET g  == ProjectionTarget(pd)
        Zs == pd.ito.Zs
        Z0 == pd.ito.Z0
        X_augmented ==
            IF IsNone(Zs) THEN None
            ELSE Some(Term("vstack",
                           [i \in 1..Len(Get(Zs)) |->
                              T2("_inverse_sample_projection", Get(Zs)[i], Get(g))],
                           0))
        X_reconst == Some(T2("_inverse_sample_projection", Get(Z0), Get(g)))
        source == pd.options.projection_source
    IN  IF pd.options.projection_target \notin {"dmaps", "pca"} THEN Raise(pd)
        ELSE IF IsNone(g) THEN Ok(pd)
        ELSE IF ~IsNone(Zs) /\ Len(Get(Zs)) = 0 THEN Raise(pd)
        ELSE IF IsNone(Z0) THEN Raise(pd)
        ELSE IF source = "pca"
             THEN Ok([pd EXCEPT !.pca.augmented = X_augmented,
                                !.pca.reconst_training = X_reconst])
        ELSE IF source = "scaling"
             THEN Ok([pd EXCEPT !.scaling.augmented = X_augmented,
                                !.scaling.reconst_training = X_reconst])
        ELSE Ok([pd EXCEPT !.data.augmented = X_augmented,
                           !.data.reconst_training = X_reconst])

(***************************************************************************)
(* The MSE block of run and run_dmaps: the RMSE of data['training']        *)
(* against data['reconst_training'], stored in data['rmse'].               *)
(***************************************************************************)
mse_block(pd) ==
    LET X == pd.data.training
        Y == pd.data.reconst_training
    IN  IF IsNone(X) \/ IsNone(Y) THEN Raise(pd)
        ELSE Ok([pd EXCEPT !.data.rmse = Some(T2("rmse", Get(X), Get(Y)))])

(***************************************************************************)
(* make_summary(): reads the shapes of data['training'] and                *)
(* pca['training'] unconditionally, the DMAPS results when                 *)
(* options['dmaps'] (eigenvalue index dimension+1 among NTrain             *)
(* eigenvalues), and data['augmented'] when present.                       *)
(***************************************************************************)
make_summary(pd) ==
    LET o == pd.options
        dmaps_missing ==
            \/ IsNone(pd.dmaps.epsilon) \/ IsNone(pd.dmaps.eigenvalues)
            \/ IsNone(pd.dmaps.dimension) \/ IsNone(pd.dmaps.reduced_basis)
            \/ IsNone(pd.dmaps.training)
        parts ==
            <<Get(pd.data.training)>>
            \o (IF o.scaling THEN <<T0(o.scaling_method)>> ELSE <<>>)
            \o (IF o.pca THEN <<Get(pd.pca.training)>> ELSE <<>>)
            \o (IF o.dmaps
                THEN <<Get(pd.dmaps.epsilon), Get(pd.dmaps.eigenvalues),
                       Get(pd.dmaps.reduced_basis), Get(pd.dmaps.training)>>
                ELSE <<>>)
            \o (IF ~IsNone(pd.data.augmented)
                THEN <<Get(pd.data.augmented)>> ELSE <<>>)
    IN  IF IsNone(pd.data.training) \/ IsNone(pd.pca.training) THEN Raise(pd)
        ELSE IF o.dmaps /\ dmaps_missing THEN Raise(pd)
        ELSE IF o.dmaps /\ Get(pd.dmaps.dimension) + 1 > NTrain - 1
             THEN Raise(pd)
        ELSE Ok([pd EXCEPT !.summary =
                   Some(Term("summary", parts,
                             IF o.dmaps THEN Get(pd.dmaps.dimension) ELSE 0))])

(***************************************************************************)
(* save_samples() and save_summary(): the file each one writes; writing a  *)
(* None raises.                                                            *)
(***************************************************************************)
save_samples(pd, fs) ==
    IF IsNone(pd.data.augmented) THEN [ok |-> FALSE, files |-> fs]
    ELSE [ok |-> TRUE,
          files |-> Append(fs, [kind |-> "samples", content |-> pd.data.augmented])]

save_summary(pd, fs) ==
    IF IsNone(pd.summary) THEN [ok |-> FALSE, files |-> fs]
    ELSE [ok |-> TRUE,
          files |-> Append(fs, [kind |-> "summary", content |-> pd.summary])]

(***************************************************************************)
(* The check at the head of run_sampling.                                  *)
(***************************************************************************)
DmapsResultsMissing_unchecked(pd) == FALSE

DmapsResultsMissing(pd) == IsNone(pd.ito.Z0)

(***************************************************************************)
(* The order in which each entry point reaches its stages, and the option  *)
(* that guards each stage.                                                 *)
(***************************************************************************)
run_order_save_first ==
    <<"scale", "pca", "dmaps", "sample_projection", "sampling",
      "inverse_sample_projection", "inverse_pca", "inverse_scale",
      "save_samples", "save_summary", "mse", "make_summary">>

run_order ==
    <<"scale", "pca", "dmaps", "sample_projection", "sampling",
      "inverse_sample_projection", "inverse_pca", "inverse_scale",
      "mse", "make_summary", "save_samples", "save_summary">>

run_dmaps_order ==
    <<"scale", "pca", "dmaps", "sample_projection",
      "inverse_sample_projection", "inverse_pca", "inverse_scale",
      "mse", "make_summary">>

run_sampling_order ==
    <<"check", "sampling", "inverse_sample_projection", "inverse_pca",
      "inverse_scale", "make_summary", "save_samples", "save_summary">>

StageOrder(e) ==
    IF e = "run" THEN run_order
    ELSE IF e = "run_dmaps" THEN run_dmaps_order
    ELSE IF e = "run_sampling" THEN run_sampling_order
    ELSE <<>>

StageOn(e, s, pd) ==
    IF e = "stage" THEN TRUE
    ELSE IF s \in {"scale", "inverse_scale"} THEN pd.options.scaling
    ELSE IF s \in {"pca", "inverse_pca"} THEN pd.options.pca
    ELSE IF s = "dmaps" THEN pd.options.dmaps
    ELSE IF s \in {"sample_projection", "inverse_sample_projection"}
         THEN pd.options.projection
    ELSE IF s = "sampling"
         THEN pd.options.sampling /\ pd.input.ito_num_samples # 0
    ELSE IF s \in {"save_samples", "save_summary"} THEN pd.options.save_samples
    ELSE TRUE

(***************************************************************************)
(* The options are read once, at the head of the entry point: the stage    *)
(* reached after stage number k is the next one whose option is on.        *)
(***************************************************************************)
StageAfter(e, k, pd) ==
    LET ord == StageOrder(e)
        later == {i \in 1..Len(ord) : i > k /\ StageOn(e, ord[i], pd)}
    IN  IF later = {} THEN "done"
        ELSE ord[CHOOSE i \in later : \A j \in later : i <= j]

NextPc(e, s, pd) ==
    LET ord == StageOrder(e)
        at == {i \in 1..Len(ord) : ord[i] = s}
    IN  IF at = {} THEN "done"
        ELSE StageAfter(e, CHOOSE i \in at : TRUE, pd)

FirstPc(e, pd) == StageAfter(e, 0, pd)

(***************************************************************************)
(* SpecPipe: the orchestrator.                                             *)
(***************************************************************************)
Off == [pc |-> "off"]

FnIdle == sp = Off /\ pj = Off /\ cw = Off

PipeOptions ==
    [scaling : BOOLEAN, scaling_method : {"Normalization"},
     pca : BOOLEAN, pca_scale_evecs : {TRUE},
     dmaps : BOOLEAN, dmap_first_evec : {FALSE}, dmaps_m_override : {0},
     projection : BOOLEAN, sampling : BOOLEAN,
     projection_source : {"pca", "scaling", "data"},
     projection_target : {"dmaps", "pca"},
     save_samples : BOOLEAN]

PipeInputs == [ito_num_samples : {0, MaxSamples}]

Training == T0("training")

InitPipe ==
    /\ \E o \in PipeOptions, i \in PipeInputs :
          plom_dict = initialize(Some(Training), o, i)
    /\ pc = "idle"
    /\ entry = "none"
    /\ trace = <<>>
    /\ files = <<>>
    /\ rng = 0
    /\ calls = 0
    /\ dm = Off
    /\ pk = Off
    /\ gs = Off
    /\ ito = Off
    /\ sc = Off
    /\ FnIdle

AtRest == pc \in {"idle", "done", "error"}

Call(e, first) ==
    /\ AtRest
    /\ calls < MaxCalls
    /\ calls' = calls + 1
    /\ entry' = e
    /\ pc' = first
    /\ trace' = <<>>
    /\ UNCHANGED <<plom_dict, files, rng>>
    /\ UNCHANGED notPipeVars

CallRun == Call("run", FirstPc("run", plom_dict))

CallRunDmaps == Call("run_dmaps", FirstPc("run_dmaps", plom_dict))

CallRunSampling == Call("run_sampling", FirstPc("run_sampling", plom_dict))

ManualStages ==
    {"scale", "pca", "dmaps", "sample_projection", "sampling",
     "inverse_sample_projection", "inverse_pca", "inverse_scale"}

CallStage == \E s \in ManualStages : Call("stage", s)

(***************************************************************************)
(* One stage of the current call; an exception ends the call with the      *)
(* dictionary as the stage left it.                                        *)
(***************************************************************************)
Step(s, res) ==
    /\ pc = s
    /\ plom_dict' = res.pd
    /\ IF res.ok
       THEN pc' = NextPc(entry, s, plom_dict) /\ trace' = Append(trace, s)
       ELSE pc' = "error" /\ trace' = trace
    /\ UNCHANGED <<entry, calls>>
    /\ UNCHANGED notPipeVars

Check ==
    /\ pc = "check"
    /\ IF DmapsResultsMissing(plom_dict)
       THEN pc' = "error"
       ELSE pc' = NextPc(entry, "check", plom_dict)
    /\ UNCHANGED <<plom_dict, entry, trace, files, rng, calls>>
    /\ UNCHANGED notPipeVars

Scale == Step("scale", scale(plom_dict)) /\ UNCHANGED <<files, rng>>

Pca == Step("pca", pca(plom_dict)) /\ UNCHANGED <<files, rng>>

Dmaps ==
    \E m_opt \in {1, NTrain - 1} :
        Step("dmaps", dmaps(plom_dict, m_opt)) /\ UNCHANGED <<files, rng>>

SampleProjection ==
    Step("sample_projection", sample_projection(plom_dict))
    /\ UNCHANGED <<files, rng>>

Sampling ==
    /\ Step("sampling", sampling(plom_dict, rng))
    /\ rng' = IF sampling(plom_dict, rng).ok
              THEN rng + plom_dict.input.ito_num_samples
              ELSE rng
    /\ UNCHANGED files

InverseSampleProjection ==
    Step("inverse_sample_projection", inverse_sample_projection(plom_dict))
    /\ UNCHANGED <<files, rng>>

InversePca == Step("inverse_pca", inverse_pca(plom_dict)) /\ UNCHANGED <<files, rng>>

InverseScale ==
    Step("inverse_scale", inverse_scale(plom_dict)) /\ UNCHANGED <<files, rng>>

Mse == Step("mse", mse_block(plom_dict)) /\ UNCHANGED <<files, rng>>

MakeSummary == Step("make_summary", make_summary(plom_dict)) /\ UNCHANGED <<files, rng>>

SaveStep(s, res) ==
    /\ Step(s, [ok |-> res.ok, pd |-> plom_dict])
    /\ files' = res.files
    /\ UNCHANGED rng

SaveSamples == SaveStep("save_samples", save_samples(plom_dict, files))

SaveSummary == SaveStep("save_summary", save_summary(plom_dict, files))

NextPipe ==
    \/ CallRun
    \/ CallRunDmaps
    \/ CallRunSampling
    \/ CallStage
    \/ Check
    \/ Scale
    \/ Pca
    \/ Dmaps
    \/ SampleProjection
    \/ Sampling
    \/ InverseSampleProjection
    \/ InversePca
    \/ InverseScale
    \/ Mse
    \/ MakeSummary
    \/ SaveSamples
    \/ SaveSummary

SpecPipe == InitPipe /\ [][NextPipe]_vars

(***************************************************************************)
(* Claims about the orchestrator (SpecPipe).                               *)
(***************************************************************************)
Range(q) == {q[i] : i \in 1..Len(q)}

IsPrefix(p, q) == Len(p) <= Len(q) /\ \A i \in 1..Len(p) : p[i] = q[i]

FullOrder ==
    <<"scale", "pca", "dmaps", "sample_projection", "sampling",
      "inverse_sample_projection", "inverse_pca", "inverse_scale",
      "mse", "make_summary", "save_samples", "save_summary">>

OptionOn(s) ==
    LET o == plom_dict.options
    IN  CASE s \in {"scale", "inverse_scale"} -> o.scaling
          [] s \in {"pca", "inverse_pca"} -> o.pca
          [] s = "dmaps" -> o.dmaps
          [] s \in {"sample_projection", "inverse_sample_projection"} -> o.projection
          [] s = "sampling" -> o.sampling /\ plom_dict.input.ito_num_samples # 0
          [] s \in {"save_samples", "save_summary"} -> o.save_samples
          [] OTHER -> TRUE

ExpectedStages == SelectSeq(FullOrder, OptionOn)

\* C1: in run(), the stages executed so far are always an initial part of
\* the enabled stages taken in the order scale, PCA, DMAPS, projection,
\* sampling, inverse projection, inverse PCA, inverse scaling, RMSE, summary,
\* save; a run that returns has executed exactly the enabled stages in that
\* order; and nothing is saved before RMSE and summary have been produced.
C1_StageOrder ==
    entry = "run" =>
        /\ IsPrefix(trace, ExpectedStages)
        /\ (pc = "done" => trace = ExpectedStages)
        /\ (Range(trace) \cap {"save_samples", "save_summary"} # {}
              => /\ {"mse", "make_summary"} \subseteq Range(trace)
                 /\ ~IsNone(plom_dict.data.rmse)
                 /\ ~IsNone(plom_dict.summary))

C1_Witness ==
    /\ entry = "run"
    /\ pc = "done"
    /\ trace = FullOrder

\* C2: every entry point that executes the inverse stages (run, run_dmaps,
\* run_sampling) has, when it returns, computed the RMSE of the
\* reconstructed training against the training data and stored it in
\* data['rmse'].
C2_RmseStoredOnReturn ==
    (pc = "done" /\ entry \in {"run", "run_dmaps", "run_sampling"}) =>
        /\ "mse" \in Range(trace)
        /\ ~IsNone(plom_dict.data.rmse)

\* C3: run_sampling on a dictionary whose ito['Z0'] is None ends in an
\* error at its first step, with the dictionary, the files and the
\* generator untouched and no stage executed.
C3_SamplingWithoutZ0 ==
    [][(pc = "check" /\ IsNone(plom_dict.ito.Z0)) =>
          /\ pc' = "error"
          /\ plom_dict' = plom_dict
          /\ files' = files
          /\ rng' = rng
          /\ trace' = <<>>]_vars

C3_Witness ==
    /\ entry = "run_sampling"
    /\ pc = "error"
    /\ IsNone(plom_dict.ito.Z0)
    /\ trace = <<>>

(***************************************************************************)
(* The dictionary with the entries run_sampling may change blanked.        *)
(***************************************************************************)
SamplingFrame(pd) ==
    [pd EXCEPT !.ito.Zs = None, !.ito.Zs_steps = None, !.ito.t = None,
               !.pca.augmented = None, !.pca.reconst_training = None,
               !.scaling.augmented = None, !.scaling.reconst_training = None,
               !.data.augmented = None, !.data.reconst_training = None,
               !.summary = None]

\* C4: every step of run_sampling leaves unchanged everything but the
\* latent samples (Zs, Zs_steps, t), the augmented and reconstructed-training
\* entries and the summary: scale parameters, PCA model, DMAPS model, Z0 and
\* the reduction matrix a keep their values.
C4_ResamplingFrame ==
    [][entry' = "run_sampling" =>
          SamplingFrame(plom_dict') = SamplingFrame(plom_dict)]_vars

C4_Witness ==
    /\ entry = "run_sampling"
    /\ pc = "done"
    /\ calls = 2
    /\ ~IsNone(plom_dict.ito.Zs)
    /\ Get(plom_dict.ito.Zs)[1].n > plom_dict.input.ito_num_samples
    /\ ~IsNone(plom_dict.data.augmented)

\* C5: data['training'] holds the value it got from initialize() after any
\* sequence of stages and entry points.
C5_TrainingImmutable == plom_dict.data.training = Some(Training)

C5_Witness ==
    /\ pc = "done"
    /\ plom_dict.options.projection_source = "data"
    /\ ~IsNone(plom_dict.data.reconst_training)
    /\ ~IsNone(plom_dict.data.augmented)
    /\ plom_dict.data.training = Some(Training)

(***************************************************************************)
(* _get_dmaps_optimal_dimension.  eigvalues is the descending eigenvalue   *)
(* sequence, Python index a being element a + 1 here; L = <<p, q>> is the  *)
(* cutoff p / q.  A division by zero gives nan or inf, neither below L.    *)
(***************************************************************************)
RatioBelow(x, y, L) == IF y = 0 THEN FALSE ELSE x * L[2] < L[1] * y

RECURSIVE DimScan_next(_, _, _)
DimScan_next(eigvalues, L, a) ==
    IF a >= Len(eigvalues) THEN Len(eigvalues) - 1
    ELSE IF a + 1 < Len(eigvalues)
            /\ RatioBelow(eigvalues[a + 2], eigvalues[2], L) THEN a - 1
    ELSE DimScan_next(eigvalues, L, a + 1)

RECURSIVE DimScan(_, _, _)
DimScan(eigvalues, L, a) ==
    IF a >= Len(eigvalues) THEN Len(eigvalues) - 1
    ELSE IF RatioBelow(eigvalues[a + 1], eigvalues[2], L) THEN a - 1
    ELSE DimScan(eigvalues, L, a + 1)

get_dmaps_optimal_dimension(eigvalues, L) == DimScan(eigvalues, L, 2)

(***************************************************************************)
(* Epsilon in units of 1/81920.                                            *)
(***************************************************************************)
EpsUnit == 10 * 8192
E(x) == x * EpsUnit
Tenth == EpsUnit \div 10
Half == EpsUnit \div 2

epsilon_list == <<Tenth, E(1), E(2), E(8), E(16), E(32), E(64), E(100), E(10000)>>

eps_for_m_target == <<E(1), E(10), E(100), E(1000), E(10000)>>

(***************************************************************************)
(* _get_dmaps_basis, eigenvalues only.  The data set H is described by the *)
(* spectrum it gives at each epsilon: H.base below the first breakpoint,   *)
(* then the spectrum of the last breakpoint <<theta, spectrum>> not above  *)
(* epsilon.                                                                *)
(***************************************************************************)
get_dmaps_basis(H, eps) ==
    IF eps >= H.steps[2][1] THEN H.steps[2][2]
    ELSE IF eps >= H.steps[1][1] THEN H.steps[1][2]
    ELSE H.base

get_dmaps_dim_from_epsilon(H, eps, L) ==
    get_dmaps_optimal_dimension(get_dmaps_basis(H, eps), L)

(***************************************************************************)
(* min() and np.argmin() of a list: the first position of the minimum.     *)
(***************************************************************************)
MinOfSeq(q) == CHOOSE x \in {q[i] : i \in 1..Len(q)} :
                   \A j \in 1..Len(q) : x <= q[j]

ArgMin(q) == CHOOSE i \in 1..Len(q) :
                 /\ q[i] = MinOfSeq(q)
                 /\ \A j \in 1..Len(q) : q[j] = MinOfSeq(q) => i <= j

m_target_list(H, L) ==
    [i \in 1..Len(eps_for_m_target) |->
        get_dmaps_dim_from_epsilon(H, eps_for_m_target[i], L)]

(***************************************************************************)
(* _get_dmaps_optimal_epsilon, one action per loop iteration.              *)
(* Scan of epsilon_list[1:] (Python index k - 1 is element k here).        *)
(***************************************************************************)
ScanStep(d) ==
    LET eps == epsilon_list[d.k]
        m == get_dmaps_dim_from_epsilon(d.H, eps, d.L)
        last == d.k = Len(epsilon_list)
    IN  IF m > d.m_target
        THEN [d EXCEPT !.m = m, !.eps_vs_m = Append(@, <<eps, m>>),
                       !.lower_bound = eps, !.k = @ + 1,
                       !.pc = IF last THEN "bisect" ELSE "scan"]
        ELSE [d EXCEPT !.m = m, !.eps_vs_m = Append(@, <<eps, m>>),
                       !.upper_bound = eps, !.pc = "bisect"]

BisectStep(d) ==
    IF d.upper_bound - d.lower_bound > Half
    THEN LET middle_bound == (d.lower_bound + d.upper_bound) \div 2
             m == get_dmaps_dim_from_epsilon(d.H, middle_bound, d.L)
         IN  IF m > d.m_target
             THEN [d EXCEPT !.m = m, !.lower_bound = middle_bound,
                            !.eps_vs_m = Append(@, <<middle_bound, m>>)]
             ELSE [d EXCEPT !.m = m, !.upper_bound = middle_bound,
                            !.eps_vs_m = Append(@, <<middle_bound, m>>)]
    ELSE [d EXCEPT !.m = get_dmaps_dim_from_epsilon(d.H, d.lower_bound, d.L),
                   !.pc = "final"]

Increment_by_nothing(lower_bound) == lower_bound

Increment_by_one(lower_bound) == lower_bound + E(1)

Increment(lower_bound) == lower_bound + Tenth

FinalStep(d) ==
    IF d.m > d.m_target
    THEN LET lower_bound == Increment(d.lower_bound)
             m == get_dmaps_dim_from_epsilon(d.H, lower_bound, d.L)
         IN  [d EXCEPT !.m = m, !.lower_bound = lower_bound,
                       !.eps_vs_m = Append(@, <<lower_bound, m>>),
                       !.incs = @ + 1]
    ELSE [d EXCEPT !.epsilon = d.lower_bound, !.m_opt = d.m_target,
                   !.pc = "basis"]

(***************************************************************************)
(* SpecDmaps.  A data set H gives a spectrum at every epsilon; the call    *)
(* is either epsilon = 'auto' or a list of one or two epsilons.            *)
(***************************************************************************)
(***************************************************************************)
(* Spectrum(k): k + 1 leading eigenvalues of the same size and the rest    *)
(* zero; the L rule gives it dimension k.                                  *)
(***************************************************************************)
Spectrum(k) == [i \in 1..NEig |-> IF i <= k + 1 THEN MaxMu ELSE 0]

DescSeqs == {q \in [1..NEig -> 0..MaxMu] :
                /\ q[1] = MaxMu
                /\ \A i \in 1..(NEig - 1) : q[i] >= q[i + 1]}

Dims == 1..(NEig - 1)

ThetaChoices == {Half \div 10, (EpsUnit * 13) \div 25,
                 E(1) + (EpsUnit * 9) \div 20, E(5), E(9), E(12),
                 E(10000) - 1, E(10000) + Half \div 10}

ThetaPairs == {t \in ThetaChoices \X ThetaChoices : t[1] < t[2]}

AutoData == {[base |-> Spectrum(k[1]),
              steps |-> <<<<t[1], Spectrum(k[2])>>, <<t[2], Spectrum(k[3])>>>>] :
                k \in Dims \X Dims \X Dims, t \in ThetaPairs}

GivenData == {[base |-> q, steps |-> <<<<E(1), Spectrum(k)>>, <<E(1), Spectrum(k)>>>>] :
                q \in DescSeqs, k \in Dims}

GivenEpsilons == {<<Half>>, <<E(2)>>, <<Half, E(2)>>, <<E(2), Half>>}

Cutoffs == {<<1, 10>>, <<1, 2>>}

Overrides == {0, 2, NEig + 1}

DmapsCall(mode, H, eps_in, L, first_evec, m_override) ==
    [pc |-> "start", mode |-> mode, H |-> H, eps_in |-> eps_in, L |-> L,
     first_evec |-> first_evec, m_override |-> m_override,
     m_target |-> 0, lower_bound |-> 0, upper_bound |-> 0, k |-> 1,
     m |-> 0, m_opt |-> 0, eps_vs_m |-> <<>>, incs |-> 0, epsilon |-> 0,
     eigvals |-> <<>>, dimension |-> 0, s |-> 0, e |-> 0, cols |-> {}]

InitDmaps ==
    /\ \/ \E H \in AutoData, L \in Cutoffs, fe \in BOOLEAN, mo \in Overrides :
            dm = DmapsCall("auto", H, <<>>, L, fe, mo)
       \/ \E H \in GivenData, ei \in GivenEpsilons, L \in Cutoffs,
             fe \in BOOLEAN, mo \in Overrides :
            dm = DmapsCall("given", H, ei, L, fe, mo)
    /\ plom_dict = initialize(Some(Training), CHOOSE o \in PipeOptions : TRUE,
                              CHOOSE i \in PipeInputs : TRUE)
    /\ pc = "idle"
    /\ entry = "none"
    /\ trace = <<>>
    /\ files = <<>>
    /\ rng = 0
    /\ calls = 0
    /\ pk = Off
    /\ gs = Off
    /\ ito = Off
    /\ sc = Off
    /\ FnIdle

EpsProbe ==
    /\ dm.pc = "start"
    /\ dm.mode = "auto"
    /\ LET ml == m_target_list(dm.H, dm.L)
       IN  dm' = [dm EXCEPT !.m_target = MinOfSeq(ml),
                            !.upper_bound = eps_for_m_target[ArgMin(ml)],
                            !.lower_bound = epsilon_list[1],
                            !.k = 2, !.pc = "scan"]
    /\ UNCHANGED notDmapsVars

EpsScan ==
    /\ dm.pc = "scan"
    /\ dm' = ScanStep(dm)
    /\ UNCHANGED notDmapsVars

EpsBisect ==
    /\ dm.pc = "bisect"
    /\ dm' = BisectStep(dm)
    /\ UNCHANGED notDmapsVars

EpsFinal ==
    /\ dm.pc = "final"
    /\ dm.m > dm.m_target => dm.incs < MaxInc
    /\ dm' = FinalStep(dm)
    /\ UNCHANGED notDmapsVars

DmapsAuto ==
    /\ dm.pc = "basis"
    /\ dm' = [dm EXCEPT !.eigvals = get_dmaps_basis(dm.H, dm.epsilon),
                        !.m = DmapsM(dm.m_opt, dm.m_override),
                        !.pc = "slice"]
    /\ UNCHANGED notDmapsVars

DmapsGiven ==
    /\ dm.pc \in {"start", "given"}
    /\ dm.mode = "given"
    /\ LET eps == dm.eps_in[dm.k]
           eigvals == get_dmaps_basis(dm.H, eps)
           m_opt == get_dmaps_optimal_dimension(eigvals, dm.L)
       IN  dm' = [dm EXCEPT !.eigvals = eigvals, !.m_opt = m_opt,
                            !.m = DmapsM(m_opt, dm.m_override),
                            !.eps_vs_m = Append(@, <<eps, m_opt>>),
                            !.epsilon = eps, !.k = @ + 1,
                            !.pc = IF dm.k = Len(dm.eps_in) THEN "slice"
                                   ELSE "given"]
    /\ UNCHANGED notDmapsVars

DmapsReduce ==
    /\ dm.pc = "slice"
    /\ LET sl == DmapsSlice(dm.m, dm.first_evec, dm.m_override)
       IN  dm' = [dm EXCEPT !.dimension = sl.m, !.s = sl.s, !.e = sl.e,
                            !.cols = SliceCols(NEig, sl.s, sl.e),
                            !.pc = "done"]
    /\ UNCHANGED notDmapsVars

NextDmaps ==
    \/ EpsProbe
    \/ EpsScan
    \/ EpsBisect
    \/ EpsFinal
    \/ DmapsAuto
    \/ DmapsGiven
    \/ DmapsReduce

SpecDmaps == InitDmaps /\ [][NextDmaps]_vars

(***************************************************************************)
(* SpecSearch: the calls of _dmaps with epsilon = 'auto' and the default   *)
(* first_evec and m_override.  The call runs to its end: it is             *)
(* straight-line code and loops, with no step that waits on anything.      *)
(***************************************************************************)
InitSearch ==
    /\ InitDmaps
    /\ dm.mode = "auto"
    /\ ~dm.first_evec
    /\ dm.m_override = 0

NextSearch ==
    \/ EpsProbe
    \/ EpsScan
    \/ EpsBisect
    \/ EpsFinal
    \/ DmapsAuto
    \/ DmapsReduce

SpecSearch == InitSearch /\ [][NextSearch]_vars /\ WF_vars(NextSearch)

(***************************************************************************)
(* Claims about the DMAPS dimension and basis.                             *)
(***************************************************************************)
MinOfSet(S) == CHOOSE x \in S : \A y \in S : x <= y

DmapsDone == dm.pc = "done"

GivenEvaluated == dm.mode = "given" /\ dm.pc \in {"given", "slice", "done"}

\* Scan indices i (Python numbering) in 2..N-1 at which mu_(i+shift) / mu_1 < L.
GapIndices(q, L, shift) ==
    {i \in 2..(Len(q) - 1) :
        /\ i + shift <= Len(q) - 1
        /\ q[2] > 0
        /\ q[i + shift + 1] * L[2] < L[1] * q[2]}

LRule(q, L) == IF GapIndices(q, L, 0) = {} THEN Len(q) - 1
               ELSE MinOfSet(GapIndices(q, L, 0)) - 1

\* C6 as amended: the returned dimension is i - 1 for the smallest scan
\* index i in 2..N-1 with mu_i / mu_1 < L, and N - 1 when there is none.
C6_DimensionAtGap ==
    GivenEvaluated => dm.m_opt = LRule(dm.eigvals, dm.L)

\* C6 as stated: the returned dimension is i - 1 for the smallest scan
\* index i in 2..N-1 with mu_(i+1) / mu_1 < L.
C6_DimensionBeforeGap ==
    (GivenEvaluated /\ GapIndices(dm.eigvals, dm.L, 1) # {})
        => dm.m_opt = MinOfSet(GapIndices(dm.eigvals, dm.L, 1)) - 1

C6_Witness ==
    /\ GivenEvaluated
    /\ GapIndices(dm.eigvals, dm.L, 0) # {}
    /\ MinOfSet(GapIndices(dm.eigvals, dm.L, 0)) > 2
    /\ dm.m_opt = 2

\* m*: the smallest dimension over the probes of the search.
MStar(H, L) ==
    MinOfSet({LRule(get_dmaps_basis(H, eps_for_m_target[i]), L) :
                 i \in 1..Len(eps_for_m_target)})

\* The dimension the L rule selects for the call: from the eigenvalues of
\* the epsilon used when epsilon is given, m* when epsilon is 'auto'.
SelectedDimension ==
    IF dm.mode = "given" THEN LRule(dm.eigvals, dm.L) ELSE MStar(dm.H, dm.L)

AvailableCols == IF dm.first_evec THEN NEig ELSE NEig - 1

MinOf2(a, b) == IF a <= b THEN a ELSE b

\* C7 as amended: with m_override > 0 the stored dimension is m_override
\* and the reduced basis has min(m_override, columns available) columns
\* (N with first_evec, N - 1 without); with m_override = 0 the stored
\* dimension is the L-rule dimension, plus one when first_evec is set.
C7_OverrideDimension ==
    DmapsDone =>
        /\ dm.m_override > 0 =>
              /\ dm.dimension = dm.m_override
              /\ Cardinality(dm.cols) = MinOf2(dm.m_override, AvailableCols)
        /\ dm.m_override = 0 =>
              dm.dimension = SelectedDimension + (IF dm.first_evec THEN 1 ELSE 0)

\* C7 as stated: with m_override > 0 the stored dimension is m_override and
\* the reduced basis has exactly m_override columns; with m_override = 0
\* the stored dimension is the one the L rule selects.
C7_OverrideExact ==
    DmapsDone =>
        /\ dm.m_override > 0 =>
              /\ dm.dimension = dm.m_override
              /\ Cardinality(dm.cols) = dm.m_override
        /\ dm.m_override = 0 => dm.dimension = SelectedDimension

C7_Witness ==
    /\ DmapsDone
    /\ dm.mode = "auto"
    /\ dm.first_evec
    /\ dm.m_override > 0
    /\ dm.m_override # SelectedDimension
    /\ Cardinality(dm.cols) = dm.m_override

ChosenM == IF dm.m_override > 0 THEN dm.m_override ELSE SelectedDimension

Columns(s, e) == {c \in 0..(NEig - 1) : s <= c /\ c < e}

\* C8 as amended: with first_evec=False the reduced basis is columns
\* [1:m+1] and the stored dimension is m; with first_evec=True it is
\* columns [0:m'] and the stored dimension is m', where m' = m when
\* m_override > 0 and m' = m + 1 when m_override = 0; the reduced basis has
\* as many columns as the stored dimension unless the slice runs past the
\* last column of the full basis.
C8_ReducedBasisColumns ==
    DmapsDone =>
        LET m == ChosenM
            m1 == IF dm.m_override > 0 THEN m ELSE m + 1
        IN  /\ ~dm.first_evec => dm.cols = Columns(1, m + 1) /\ dm.dimension = m
            /\ dm.first_evec => dm.cols = Columns(0, m1) /\ dm.dimension = m1
            /\ Cardinality(dm.cols) = MinOf2(dm.dimension, AvailableCols)

\* C8 as stated: with first_evec=False the reduced basis is columns
\* [1:m+1], with first_evec=True columns [0:m]; in both cases it has m
\* columns and the stored dimension is m.
C8_ReducedBasisHasM ==
    DmapsDone =>
        LET m == ChosenM
        IN  /\ ~dm.first_evec => dm.cols = Columns(1, m + 1)
            /\ dm.first_evec => dm.cols = Columns(0, m)
            /\ Cardinality(dm.cols) = m
            /\ dm.dimension = m

C8_Witness ==
    /\ DmapsDone
    /\ dm.first_evec
    /\ dm.m_override = 0
    /\ dm.cols = Columns(0, SelectedDimension + 1)
    /\ SelectedDimension + 1 < NEig

\* m(epsilon) is non-increasing in epsilon for the data set of the call.
NonIncreasing ==
    /\ LRule(dm.H.base, dm.L) >= LRule(dm.H.steps[1][2], dm.L)
    /\ LRule(dm.H.steps[1][2], dm.L) >= LRule(dm.H.steps[2][2], dm.L)

SearchReturned == dm.mode = "auto" /\ dm.pc \in {"basis", "slice", "done"}

DimAt(eps) == LRule(get_dmaps_basis(dm.H, eps), dm.L)

PySliceFrom_lowest(q, start) ==
    LET n == Len(q)
    IN  IF start < 0
        THEN SubSeq(q, 1, IF 0 - start > n THEN n ELSE 0 - start)
        ELSE SubSeq(q, (IF start > n THEN n ELSE start) + 1, n)

PySliceFrom(q, start) ==
    LET n == Len(q)
        st == IF start < 0
              THEN (IF n + start < 0 THEN 0 ELSE n + start)
              ELSE (IF start > n THEN n ELSE start)
    IN  SubSeq(q, st + 1, n)

RECURSIVE SumFirst(_, _)
SumFirst(q, i) == IF i = 0 THEN 0 ELSE q[i] + SumFirst(q, i - 1)

\* np.sum(eigvals[0:i]) / tot_eigvals > 1 - cumulative_energy, with the
\* energy En[1] / En[2]; 0 / 0 is nan and compares False.
EnergyExceeded(eigvals, i, En) ==
    LET tot_eigvals == SumFirst(eigvals, Len(eigvals))
    IN  IF tot_eigvals = 0 THEN FALSE
        ELSE SumFirst(eigvals, i) * En[2] > (En[2] - En[1]) * tot_eigvals

CumEnergyStep(p) ==
    IF p.i > Len(p.eigvals) THEN [p EXCEPT !.pc = "truncate"]
    ELSE IF EnergyExceeded(p.eigvals, p.i, p.cumulative_energy)
    THEN [p EXCEPT !.eigvals_trunc = Some(PySliceFrom(p.eigvals, p.i - 1)),
                   !.pc = "truncate"]
    ELSE [p EXCEPT !.i = @ + 1, !.pc = "loop"]

AscSeqs == {q \in [1..NFeat -> 0..MaxLam] :
               \A i \in 1..(NFeat - 1) : q[i] <= q[i + 1]}

Energies == {<<1, 10>>, <<1, 2>>, <<9, 10>>, <<99999, 100000>>, <<1, 1>>}

PcaCall(method, eigvals, En, cutoff, pca_dim) ==
    [pc |-> "start", method |-> method, eigvals |-> eigvals,
     cumulative_energy |-> En, eigenvalues_cutoff |-> cutoff,
     pca_dim |-> pca_dim, i |-> 0, eigvals_trunc |-> None,
     num_dropped_features |-> 0, evec_cols |-> {}]

InitPca ==
    /\ \E q \in AscSeqs :
          \/ \E En \in Energies : pk = PcaCall("cum_energy", q, En, 0, 1)
          \/ \E c \in 0..MaxLam : pk = PcaCall("eigv_cutoff", q, <<1, 1>>, c, 1)
          \/ \E d \in 0..(NFeat + 1) : pk = PcaCall("pca_dim", q, <<1, 1>>, 0, d)
    /\ plom_dict = initialize(Some(Training), CHOOSE o \in PipeOptions : TRUE,
                              CHOOSE i \in PipeInputs : TRUE)
    /\ pc = "idle"
    /\ entry = "none"
    /\ trace = <<>>
    /\ files = <<>>
    /\ rng = 0
    /\ calls = 0
    /\ dm = Off
    /\ gs = Off
    /\ ito = Off
    /\ sc = Off
    /\ FnIdle

PcaEigvCutoff ==
    /\ pk.pc = "start"
    /\ pk.method = "eigv_cutoff"
    /\ LET Above(x) == x > pk.eigenvalues_cutoff
       IN  pk' = [pk EXCEPT !.eigvals_trunc = Some(SelectSeq(pk.eigvals, Above)),
                            !.pc = "truncate"]
    /\ UNCHANGED notPcaVars

PcaCumEnergy ==
    /\ pk.pc \in {"start", "loop"}
    /\ pk.method = "cum_energy"
    /\ pk' = CumEnergyStep(pk)
    /\ UNCHANGED notPcaVars

PcaDim ==
    /\ pk.pc = "start"
    /\ pk.method = "pca_dim"
    /\ pk' = [pk EXCEPT !.eigvals_trunc = Some(PySliceFrom(pk.eigvals, 0 - pk.pca_dim)),
                        !.pc = "truncate"]
    /\ UNCHANGED notPcaVars

\* Lines 474-480: the first use of eigvals_trunc after the branches; a name
\* never assigned raises UnboundLocalError.
PcaTruncate ==
    /\ pk.pc = "truncate"
    /\ IF IsNone(pk.eigvals_trunc)
       THEN pk' = [pk EXCEPT !.pc = "error"]
       ELSE LET n == Len(pk.eigvals)
                num_dropped_features == n - Len(Get(pk.eigvals_trunc))
            IN  pk' = [pk EXCEPT !.num_dropped_features = num_dropped_features,
                                 !.evec_cols = SliceCols(n, num_dropped_features, n),
                                 !.pc = "done"]
    /\ UNCHANGED notPcaVars

NextPca ==
    \/ PcaEigvCutoff
    \/ PcaCumEnergy
    \/ PcaDim
    \/ PcaTruncate

SpecPca == InitPca /\ [][NextPca]_vars

(***************************************************************************)
(* Claims about the PCA truncation.                                        *)
(***************************************************************************)
RECURSIVE SumTop(_, _)
SumTop(q, nu) == IF nu = 0 THEN 0 ELSE q[Len(q) - nu + 1] + SumTop(q, nu - 1)

\* (sum of the top nu eigenvalues) / T >= E, for T > 0.
ShareReached(q, nu, En) == SumTop(q, nu) * En[2] >= En[1] * SumTop(q, Len(q))

CumEnergyFinished == pk.method = "cum_energy" /\ pk.pc \in {"done", "error"}

\* C10: for truncation by cumulative energy E in (0,1], a value of
\* eigvals_trunc is always defined, the number nu of retained eigenvalues
\* is the smallest nu with (sum of the top nu)/T >= E, and the retained
\* eigenvalues are exactly the nu largest.
C10_CumEnergyTruncation ==
    CumEnergyFinished =>
        /\ pk.pc = "done"
        /\ ~IsNone(pk.eigvals_trunc)
        /\ LET q == pk.eigvals
               nu == Len(Get(pk.eigvals_trunc))
           IN  /\ ShareReached(q, nu, pk.cumulative_energy)
               /\ \A k \in 0..(nu - 1) : ~ShareReached(q, k, pk.cumulative_energy)
               /\ Get(pk.eigvals_trunc) = SubSeq(q, Len(q) - nu + 1, Len(q))

\* The same statement for eigenvalues that are not all zero.
CumEnergyPositiveTotal ==
    (CumEnergyFinished /\ SumTop(pk.eigvals, Len(pk.eigvals)) > 0)
        => C10_CumEnergyTruncation

PcaDimFinished == pk.method = "pca_dim" /\ pk.pc = "done"

TopOf(q, r) == SubSeq(q, Len(q) - r + 1, Len(q))

LastCols(n, r) == {c \in 0..(n - 1) : c >= n - r}

C12_RetainedPositive ==
    pk.pc = "done" =>
        \A i \in 1..Len(Get(pk.eigvals_trunc)) : Get(pk.eigvals_trunc)[i] > 0

(***************************************************************************)
(* Claims about projection and the DMAPS input.                            *)
(***************************************************************************)
ProjectionInputMissing ==
    /\ pc = "sample_projection"
    /\ IsNone(ProjectionSource(plom_dict)) \/ IsNone(ProjectionTarget(plom_dict))

\* C15 as amended: when projection is requested but the matrix selected by
\* projection_source (or the basis selected by projection_target) is
\* missing, sample_projection raises nothing: it leaves the dictionary as
\* it is and the pipeline continues with the next enabled stage.
C15_MissingProjectionSkipped ==
    [][ProjectionInputMissing =>
          /\ pc' = NextPc(entry, "sample_projection", plom_dict)
          /\ pc' # "error"
          /\ plom_dict' = plom_dict]_vars

\* C15 as stated: when projection is requested but the matrix selected by
\* projection_source (or the basis selected by projection_target) is
\* missing, an error surfaces immediately and no later stage runs.
C15_MissingProjectionRaises ==
    [][ProjectionInputMissing => pc' = "error"]_vars

C15_Witness ==
    /\ entry = "run"
    /\ pc = "done"
    /\ "sample_projection" \in Range(trace)
    /\ IsNone(plom_dict.ito.Z0)
    /\ IsNone(ProjectionSource(plom_dict))

\* The most processed representation present: PCA data, else scaled data,
\* else raw training data.
MostProcessed(pd) ==
    IF pd.pca.training # None THEN pd.pca.training
    ELSE IF pd.scaling.training # None THEN pd.scaling.training
    ELSE pd.data.training

DmapsStageRuns == pc = "dmaps" /\ pc' # "error"

PipeIdle ==
    /\ plom_dict = initialize(Some(Training), CHOOSE o \in PipeOptions : TRUE,
                              CHOOSE i \in PipeInputs : TRUE)
    /\ pc = "idle"
    /\ entry = "none"
    /\ trace = <<>>
    /\ files = <<>>
    /\ rng = 0
    /\ calls = 0

AugmentedRows(K, N) ==
    [r \in 1..(K * N) |-> <<((r - 1) \div N) + 1, ((r - 1) % N) + 1>>]

Returned(rows) == [kind |-> "return", samples |-> rows, exc |-> "none"]

Raised(exc) == [kind |-> "raise", samples |-> <<>>, exc |-> exc]

\* training is the number of rows of plom_dict['data']['training'] (or
\* None), augmented the rows of plom_dict['data']['augmented'] (or None).
get_samples(training, augmented, k) ==
    IF k.type # "int" THEN Raised("TypeError")
    ELSE IF k.val < 0 THEN Raised("ValueError")
    ELSE IF k.val = 0
         THEN (IF IsNone(augmented) THEN Raised("ValueError")
               ELSE Returned(Get(augmented)))
    ELSE IF IsNone(training) THEN Raised("AttributeError")
    ELSE IF IsNone(augmented) THEN Raised("AttributeError")
    ELSE LET train_size == Get(training)
             samples_size == Len(Get(augmented))
         IN  IF k.val * train_size < samples_size
             THEN Returned(SubSeq(Get(augmented), 1, k.val * train_size))
             ELSE Raised("Exception")

Requests == [type : {"int"}, val : (0 - 1)..(MaxSamples + 1)]
                \cup [type : {"float"}, val : {1}]

GetCall(N, K, training, augmented, k) ==
    [pc |-> "start", N |-> N, K |-> K, training |-> training,
     augmented |-> augmented, k |-> k, result |-> Raised("none")]

InitGet ==
    /\ \E N \in 1..NTrain, K \in 0..MaxSamples, k \in Requests,
          hasTraining \in BOOLEAN, hasAugmented \in BOOLEAN :
          gs = GetCall(N, K,
                       IF hasTraining THEN Some(N) ELSE None,
                       IF hasAugmented THEN Some(AugmentedRows(K, N)) ELSE None,
                       k)
    /\ PipeIdle
    /\ dm = Off
    /\ pk = Off
    /\ ito = Off
    /\ sc = Off
    /\ FnIdle

GetSamples ==
    /\ gs.pc = "start"
    /\ gs' = [gs EXCEPT !.result = get_samples(gs.training, gs.augmented, gs.k),
                        !.pc = "done"]
    /\ UNCHANGED notGetVars

NextGet == GetSamples

SpecGet == InitGet /\ [][NextGet]_vars

GetFinished == gs.pc = "done"

PoolPresent == gs.training # None /\ gs.augmented # None

\* C17: with the training set and the augmented set of K samples present,
\* get_samples with a positive integer k returns the first k*N rows
\* whenever k <= K and raises exactly when k > K; k = 0 returns the whole
\* augmented set; a negative k raises ValueError and a non-integer k
\* raises TypeError.
C17_GetSamples ==
    (GetFinished /\ PoolPresent) =>
        /\ (gs.k.type = "int" /\ gs.k.val > 0 /\ gs.k.val <= gs.K) =>
              gs.result = Returned(SubSeq(Get(gs.augmented), 1, gs.k.val * gs.N))
        /\ (gs.k.type = "int" /\ gs.k.val > 0) =>
              (gs.result.kind = "raise" <=> gs.k.val > gs.K)
        /\ (gs.k.type = "int" /\ gs.k.val = 0) =>
              gs.result = Returned(Get(gs.augmented))
        /\ (gs.k.type = "int" /\ gs.k.val < 0) => gs.result = Raised("ValueError")
        /\ gs.k.type # "int" => gs.result = Raised("TypeError")

(***************************************************************************)
(* The Ito sampler: _simulate_entire_ito, _simulate_ito_walk,              *)
(* _simulate_ito_step and the stacking of the walks' results by            *)
(* inverse_sample_projection.                                              *)
(*                                                                         *)
(* A standard-normal draw is named by <<stream, idx>>: the idx-th draw of  *)
(* the generator of the main process (stream 0) or of the worker that runs *)
(* task `stream`.  The pair (Z, Y) after j steps of a walk is the pair of  *)
(* terms Term("Z", <<Z at the start, stream, first>>, j) and               *)
(* Term("Y", <<...>>, j), where <<stream, first>> is the draw of the       *)
(* initial Y and the j steps consume the draws first+1 .. first+j.         *)
(* A rational is a pair <<numerator, denominator>>.                        *)
(***************************************************************************)
MaxSteps == 3

MaxJobs == 2

FourLn100 == <<18420681, 1000000>>

ItoSteps(f0, dr) ==
    <<FourLn100[1] * f0[2] * dr[2], FourLn100[2] * f0[1] * dr[1]>>

PyInt(r) == r[1] \div r[2]

auto_t_ceil_plus_one(f0, dr) ==
    LET s == ItoSteps(f0, dr)
    IN  (IF s[1] % s[2] = 0 THEN s[1] \div s[2] ELSE (s[1] \div s[2]) + 1) + 1

auto_t(f0, dr) ==
    LET s == ItoSteps(f0, dr)
    IN  PyInt(<<s[1] + s[2], s[2]>>)

InitialY(d) == T2("dot", T1("randn", d), "a")

_simulate_ito_step(Z, Y, d) ==
    IF Y = InitialY(<<d[1], d[2] - 1>>)
    THEN [Z |-> Term("Z", <<Z, d[1], d[2] - 1>>, 1),
          Y |-> Term("Y", <<Z, d[1], d[2] - 1>>, 1)]
    ELSE IF /\ Z.op = "Z" /\ Y.op = "Y" /\ Z.args = Y.args /\ Z.n = Y.n
            /\ d = <<Z.args[2], Z.args[3] + Z.n + 1>>
         THEN [Z |-> Term("Z", Z.args, Z.n + 1),
               Y |-> Term("Y", Z.args, Z.n + 1)]
         ELSE [Z |-> T3("Znext", Z, Y, d), Y |-> T3("Ynext", Z, Y, d)]

RECURSIVE WalkLoop(_, _, _, _, _, _)
WalkLoop(Z, Y, steps, j, t, d) ==
    IF j >= t THEN [Z |-> Z, steps |-> steps]
    ELSE LET nxt == _simulate_ito_step(Z, Y, <<d[1], d[2] + j + 1>>)
         IN  WalkLoop(nxt.Z, nxt.Y, Append(steps, nxt.Z), j + 1, t, d)

_simulate_ito_walk(Z, t, d) == WalkLoop(Z, InitialY(d), <<>>, 0, t, d)

\* [Zs, Zs_steps] = np.array(res, dtype=object).T: each element of res is
\* the pair (Z of nu rows, list of t step matrices).  The object array has
\* shape (n, 2), and its transpose unpacks into the two columns, only when
\* the two members of a pair differ in length; with t = nu the array is
\* built one level deeper and with n = 0 it is empty, and the statement
\* raises ValueError.
UnpackResults(res, nu, t) ==
    IF Len(res) = 0 \/ t = nu
    THEN [ok |-> FALSE, Zs |-> <<>>, Zs_steps |-> <<>>]
    ELSE [ok |-> TRUE,
          Zs |-> [i \in 1..Len(res) |-> Get(res[i]).Z],
          Zs_steps |-> [i \in 1..Len(res) |-> Get(res[i]).steps]]

\* np.vstack([np.dot(g, Z_final.T) for Z_final in Zs]): one block of N rows
\* per walk, row <<Z, i>> being row i of the block computed from Z.
StackSamples(Zs, N) ==
    [r \in 1..(Len(Zs) * N) |-> <<Zs[((r - 1) \div N) + 1], ((r - 1) % N) + 1>>]

\* <<ito_f0, ito_dr>>: 4*ln(100)/(f0*dr) is 18.42, 1.84, 9.21, 0.92, 4.61, 0.46.
ItoRates == {<<10, 1>>, <<20, 1>>, <<40, 1>>} \X {<<1, 10>>, <<1, 1>>}

ItoStepOptions == {None} \cup {Some(t) : t \in 0..MaxSteps}

\* draws counts the draws made from the generator of the main process,
\* used[w] those made from the generator of worker process w; start[k] is
\* the draw of the initial Y of the k-th submitted walk.
ItoCall(n, t, rate, parallel, n_jobs, nu) ==
    [pc |-> "start", Z0 |-> T0("Z0"), n |-> n, t |-> t,
     f0 |-> rate[1], dr |-> rate[2], parallel |-> parallel,
     n_jobs |-> n_jobs, nu |-> nu,
     N |-> NTrain, T |-> 0, i |-> 0, j |-> 0,
     Z |-> T0("Z0"), Y |-> T0("unset"), steps |-> <<>>, draws |-> 0,
     used |-> [w \in 1..n_jobs |-> 0],
     start |-> [k \in 1..n |-> None],
     res |-> [k \in 1..n |-> None],
     Zs |-> <<>>, Zs_steps |-> <<>>, augmented |-> None]

InitIto ==
    /\ \E n \in 0..MaxSamples, t \in ItoStepOptions, rate \in ItoRates,
          parallel \in BOOLEAN, n_jobs \in 1..MaxJobs, nu \in 1..NFeat :
          /\ (t # None => rate = <<<<10, 1>>, <<1, 10>>>>)
          /\ ito = ItoCall(n, t, rate, parallel, n_jobs, nu)
    /\ PipeIdle
    /\ dm = Off
    /\ pk = Off
    /\ gs = Off
    /\ sc = Off
    /\ FnIdle

ItoBegin ==
    /\ ito.pc = "start"
    /\ ito' = [ito EXCEPT
                 !.T = IF ito.t = None THEN auto_t(ito.f0, ito.dr)
                       ELSE Get(ito.t),
                 !.pc = IF ito.parallel THEN "parallel" ELSE "loop"]
    /\ UNCHANGED notItoVars

walk_start_from_previous(it) == it.Z

walk_start(it) == it.Z0

WalkCall ==
    /\ ito.pc = "loop"
    /\ ito.i < ito.n
    /\ ito' = [ito EXCEPT !.Z = walk_start(ito),
                          !.Y = InitialY(<<0, ito.draws + 1>>),
                          !.start[ito.i + 1] = Some(<<0, ito.draws + 1>>),
                          !.draws = ito.draws + 1,
                          !.steps = <<>>,
                          !.j = 0,
                          !.pc = "walk"]
    /\ UNCHANGED notItoVars

WalkStep ==
    /\ ito.pc = "walk"
    /\ ito.j < ito.T
    /\ LET nxt == _simulate_ito_step(ito.Z, ito.Y, <<0, ito.draws + 1>>)
       IN  ito' = [ito EXCEPT !.Z = nxt.Z,
                              !.Y = nxt.Y,
                              !.draws = ito.draws + 1,
                              !.steps = Append(ito.steps, nxt.Z),
                              !.j = ito.j + 1]
    /\ UNCHANGED notItoVars

WalkReturn ==
    /\ ito.pc = "walk"
    /\ ito.j >= ito.T
    /\ ito' = [ito EXCEPT !.Zs = Append(ito.Zs, ito.Z),
                          !.Zs_steps = Append(ito.Zs_steps, ito.steps),
                          !.i = ito.i + 1,
                          !.pc = "loop"]
    /\ UNCHANGED notItoVars

LoopReturn ==
    /\ ito.pc = "loop"
    /\ ito.i >= ito.n
    /\ ito' = [ito EXCEPT !.pc = "returned"]
    /\ UNCHANGED notItoVars

\* Parallel(n_jobs=1) runs the tasks one after the other in the calling
\* process; with more jobs a task runs in any of the worker processes, each
\* of which has the module-level generator of numpy of its own process.
InProcessWalk ==
    /\ ito.pc = "parallel"
    /\ ito.n_jobs = 1
    /\ \E k \in 1..ito.n :
          /\ ito.res[k] = None
          /\ \A h \in 1..(k - 1) : ito.res[h] # None
          /\ ito' = [ito EXCEPT
                       !.res[k] = Some(_simulate_ito_walk(ito.Z0, ito.T,
                                                          <<0, ito.draws + 1>>)),
                       !.start[k] = Some(<<0, ito.draws + 1>>),
                       !.draws = ito.draws + ito.T + 1]
    /\ UNCHANGED notItoVars

WorkerDraw_per_task(it, k, w) == <<k, 1>>

\* The next draw of the generator of worker process w.
WorkerDraw(it, k, w) == <<w, it.used[w] + 1>>

WorkerWalk ==
    /\ ito.pc = "parallel"
    /\ ito.n_jobs > 1
    /\ \E k \in 1..ito.n, w \in 1..ito.n_jobs :
          /\ ito.res[k] = None
          /\ ito' = [ito EXCEPT
                       !.res[k] = Some(_simulate_ito_walk(ito.Z0, ito.T,
                                                          WorkerDraw(ito, k, w))),
                       !.start[k] = Some(WorkerDraw(ito, k, w)),
                       !.used[w] = ito.used[w] + ito.T + 1]
    /\ UNCHANGED notItoVars

ParallelJoin ==
    /\ ito.pc = "parallel"
    /\ \A k \in 1..ito.n : ito.res[k] # None
    /\ LET u == UnpackResults(ito.res, ito.nu, ito.T)
       IN  ito' = [ito EXCEPT !.Zs = u.Zs,
                              !.Zs_steps = u.Zs_steps,
                              !.i = ito.n,
                              !.pc = IF u.ok THEN "returned" ELSE "error"]
    /\ UNCHANGED notItoVars

StackWalks ==
    /\ ito.pc = "returned"
    /\ ito' = [ito EXCEPT !.augmented = Some(StackSamples(ito.Zs, ito.N)),
                          !.pc = "done"]
    /\ UNCHANGED notItoVars

NextIto ==
    \/ ItoBegin
    \/ WalkCall
    \/ WalkStep
    \/ WalkReturn
    \/ LoopReturn
    \/ InProcessWalk
    \/ WorkerWalk
    \/ ParallelJoin
    \/ StackWalks

SpecIto == InitIto /\ [][NextIto]_vars

(***************************************************************************)
(* Claims about the Ito sampler.                                           *)
(***************************************************************************)
ItoFinished == ito.pc \in {"done", "error"}

\* The draw of the initial Y of the k-th submitted walk.
WalkDraw(k) == Get(ito.start[k])

Started == {k \in 1..ito.n : ito.start[k] # None}

\* No two walks use the same draw: two walks on one generator use ranges
\* of T+1 draws that do not overlap.
FreshDraws ==
    \A k \in Started : \A h \in Started \ {k} :
        WalkDraw(k)[1] = WalkDraw(h)[1] =>
            \/ WalkDraw(k)[2] + ito.T < WalkDraw(h)[2]
            \/ WalkDraw(h)[2] + ito.T < WalkDraw(k)[2]

\* The Z of the k-th submitted walk after j steps.
WalkZ(k, j) ==
    IF j = 0 THEN ito.Z0
    ELSE Term("Z", <<ito.Z0, WalkDraw(k)[1], WalkDraw(k)[2]>>, j)

\* C18: after a run with K = num_samples > 0 the list of latent samples
\* holds exactly K matrices and the augmented set has K*N rows, rows
\* (k-1)*N+1 .. k*N coming from the k-th submitted walk, with parallel=True
\* as with parallel=False.
C18_WalkBlocks ==
    (ItoFinished /\ ito.n > 0) =>
        /\ ito.pc = "done"
        /\ Len(ito.Zs) = ito.n
        /\ \A k \in 1..ito.n : ito.Zs[k] = WalkZ(k, ito.T)
        /\ Len(Get(ito.augmented)) = ito.n * ito.N
        /\ \A k \in 1..ito.n : \A r \in 1..ito.N :
              Get(ito.augmented)[(k - 1) * ito.N + r] = <<WalkZ(k, ito.T), r>>

\* C19: with ito_steps = 'auto' the number of steps is
\* T = floor(4*ln(100)/(f0*dr)) + 1; a supplied ito_steps is used as it is.
C19_StepCount ==
    ito.pc # "start" =>
        LET s == ItoSteps(ito.f0, ito.dr)
        IN  /\ ito.t = None =>
                 /\ (ito.T - 1) * s[2] <= s[1]
                 /\ s[1] < ito.T * s[2]
            /\ ito.t # None => ito.T = Get(ito.t)

\* C19 as stated: with ito_steps = 'auto', T = ceil(4*ln(100)/(f0*dr)) + 1.
C19_StepCountCeilPlusOne ==
    ito.pc # "start" =>
        LET s == ItoSteps(ito.f0, ito.dr)
        IN  /\ ito.t = None =>
                 /\ (ito.T - 2) * s[2] < s[1]
                 /\ s[1] <= (ito.T - 1) * s[2]
            /\ ito.t # None => ito.T = Get(ito.t)

C19_Witness ==
    /\ ito.pc = "done"
    /\ ito.t = None
    /\ ito.f0 = <<10, 1>>
    /\ ito.dr = <<1, 10>>
    /\ ito.T = 19
    /\ ito.n > 0
    /\ \A k \in 1..ito.n : Len(ito.Zs_steps[k]) = 19

\* C20: every walk starts from the same Z0 with a fresh Y = R.a, applies
\* the step exactly T times in sequence and emits the last Z; its list of
\* steps has T entries, the last of which is the emitted Z; Z0 is unchanged.
C20_WalkFromZ0 ==
    /\ ito.pc # "off" => ito.Z0 = T0("Z0")
    /\ ito.pc = "walk" =>
          /\ ito.j <= ito.T
          /\ Len(ito.steps) = ito.j
          /\ ito.Z = WalkZ(ito.i + 1, ito.j)
          /\ ito.j = 0 => ito.Y = InitialY(WalkDraw(ito.i + 1))
    /\ ito.pc # "off" => FreshDraws
    /\ ito.pc \in {"loop", "walk", "returned", "done"} =>
          /\ Len(ito.Zs_steps) = Len(ito.Zs)
          /\ \A k \in 1..Len(ito.Zs) :
                /\ ito.Zs[k] = WalkZ(k, ito.T)
                /\ Len(ito.Zs_steps[k]) = ito.T
                /\ \A j \in 1..ito.T : ito.Zs_steps[k][j] = WalkZ(k, j)
                /\ ito.T > 0 => ito.Zs_steps[k][ito.T] = ito.Zs[k]
    /\ ito.pc = "parallel" =>
          \A k \in 1..ito.n : ito.res[k] # None =>
                /\ Get(ito.res[k]).Z = WalkZ(k, ito.T)
                /\ Len(Get(ito.res[k]).steps) = ito.T
                /\ \A j \in 1..ito.T : Get(ito.res[k]).steps[j] = WalkZ(k, j)

C20_Witness ==
    /\ ito.pc = "done"
    /\ ~ito.parallel
    /\ ito.n = 2
    /\ ito.T = 3
    /\ ito.Zs[2] = Term("Z", <<T0("Z0"), 0, 5>>, 3)
    /\ ito.Zs_steps[2][3] = ito.Zs[2]

\* C22: the walks draw from the module-level generator of numpy of the
\* process that runs them, which the program never seeds.  Sequentially,
\* and in parallel with one job, every walk uses the generator of the main
\* process and the k-th walk starts at the draw that follows the (k-1)(T+1)
\* draws of the walks before it; with several jobs a walk uses the
\* generator of the worker process that runs it, after the draws of the
\* walks that worker ran before.  No two walks use the same draw.
C22_ProcessGenerators ==
    ito.pc # "off" =>
        /\ FreshDraws
        /\ \A k \in Started :
              IF ~ito.parallel \/ ito.n_jobs = 1
              THEN WalkDraw(k) = <<0, (k - 1) * (ito.T + 1) + 1>>
              ELSE /\ WalkDraw(k)[1] \in 1..ito.n_jobs
                   /\ (WalkDraw(k)[2] - 1) % (ito.T + 1) = 0
                   /\ WalkDraw(k)[2] + ito.T <= ito.used[WalkDraw(k)[1]]

\* C22 as stated: every walk has a generator of its own, so it starts at
\* the first draw of a generator that no other walk uses.
C22_OwnGenerator ==
    \A k \in Started :
        /\ WalkDraw(k)[2] = 1
        /\ \A h \in Started \ {k} : WalkDraw(h)[1] # WalkDraw(k)[1]

C22_Witness ==
    /\ ito.pc = "done"
    /\ ito.parallel
    /\ ito.n_jobs = 2
    /\ ito.n = 2
    /\ ito.T = 3
    /\ WalkDraw(1) = <<2, 5>>
    /\ WalkDraw(2) = <<2, 1>>

(***************************************************************************)
(* Scaling: _scaleMinMax, _scaleNormalize, scale and _inverse_scale.       *)
(*                                                                         *)
(* The arrays hold binary floating-point numbers.  A number is a rational  *)
(* <<n, d>> in lowest terms whose denominator is a power of two and whose  *)
(* significand has at most MantissaBits bits (53 in the program, fewer     *)
(* here); the exponent is unbounded.  Every arithmetic operation of numpy  *)
(* returns the exact result rounded to the nearest such number, ties to    *)
(* the even significand.  A matrix is a sequence of rows.                  *)
(***************************************************************************)
MantissaBits == 3

RatAdd(a, b) == <<a[1] * b[2] + b[1] * a[2], a[2] * b[2]>>

RatSub(a, b) == <<a[1] * b[2] - b[1] * a[2], a[2] * b[2]>>

RatMul(a, b) == <<a[1] * b[1], a[2] * b[2]>>

RatDiv(a, b) ==
    IF b[1] > 0 THEN <<a[1] * b[2], a[2] * b[1]>>
    ELSE <<-(a[1] * b[2]), a[2] * (-b[1])>>

RatLess(a, b) == a[1] * b[2] < b[1] * a[2]

RatLeq(a, b) == a[1] * b[2] <= b[1] * a[2]

RatAbs(a) == IF a[1] < 0 THEN <<-a[1], a[2]>> ELSE a

\* a = sig * base^e with lo <= sig < lo * base, for a > 0.
RECURSIVE Normalize(_, _, _, _)
Normalize(a, e, base, lo) ==
    IF a[1] >= lo * base * a[2] THEN Normalize(<<a[1], a[2] * base>>, e + 1, base, lo)
    ELSE IF a[1] < lo * a[2] THEN Normalize(<<a[1] * base, a[2]>>, e - 1, base, lo)
    ELSE [sig |-> a, e |-> e]

\* m * 2^e in lowest terms.
RECURSIVE Scale2(_, _)
Scale2(m, e) ==
    IF m = 0 THEN <<0, 1>>
    ELSE IF e >= 0 THEN <<m * 2^e, 1>>
    ELSE IF m % 2 = 0 THEN Scale2(m \div 2, e + 1)
    ELSE <<m, 2^(-e)>>

\* n/d rounded to the nearest integer, ties to the even one, for n, d > 0.
RoundHalfEven(n, d) ==
    IF 2 * (n % d) > d \/ (2 * (n % d) = d /\ (n \div d) % 2 = 1)
    THEN (n \div d) + 1 ELSE n \div d

FlPositive(nm) == Scale2(RoundHalfEven(nm.sig[1], nm.sig[2]), nm.e)

RatNeg(a) == <<-a[1], a[2]>>

\* Round the rational a to the nearest floating-point number, ties to even.
Fl(a) ==
    IF a[1] = 0 THEN <<0, 1>>
    ELSE IF a[1] < 0
         THEN RatNeg(FlPositive(Normalize(RatNeg(a), 0, 2, 2^(MantissaBits - 1))))
         ELSE FlPositive(Normalize(a, 0, 2, 2^(MantissaBits - 1)))

FAdd(x, y) == Fl(RatAdd(x, y))

FSub(x, y) == Fl(RatSub(x, y))

FMul(x, y) == Fl(RatMul(x, y))

FDiv(x, y) == Fl(RatDiv(x, y))

\* The integer m with m^2 <= n/d < (m+1)^2 rounded to the nearer of n/d's
\* square root: m + 1 when n/d > (m + 1/2)^2.
RootNearest(n, d) ==
    CHOOSE m \in 2^(MantissaBits - 1)..2^MantissaBits :
        /\ (2 * m - 1) * (2 * m - 1) * d <= 4 * n
        /\ 4 * n < (2 * m + 1) * (2 * m + 1) * d

SqrtPositive(nm) == Scale2(RootNearest(nm.sig[1], nm.sig[2]), nm.e)

\* np.sqrt: the floating-point number nearest to the square root of x >= 0.
FSqrt(x) ==
    IF x[1] = 0 THEN <<0, 1>>
    ELSE SqrtPositive(Normalize(x, 0, 4, 4^(MantissaBits - 1)))

Column(X, c) == [i \in 1..Len(X) |-> X[i][c]]

NumCols(X) == Len(X[1])

RECURSIVE SumSeq(_, _)
SumSeq(q, i) ==
    IF i = 1 THEN q[1] ELSE FAdd(SumSeq(q, i - 1), q[i])

\* np.min / np.max of a column.
ColMin(q) == CHOOSE x \in Range(q) : \A y \in Range(q) : RatLeq(x, y)

ColMax(q) == CHOOSE x \in Range(q) : \A y \in Range(q) : RatLeq(y, x)

\* np.mean: the sum along the axis divided by the number of rows.
np_mean(q) == FDiv(SumSeq(q, Len(q)), <<Len(q), 1>>)

\* np.std: sqrt(mean(abs(x - x.mean())**2)).
SquaredDeviations(q, mean) ==
    [i \in 1..Len(q) |-> FMul(FSub(q[i], mean), FSub(q[i], mean))]

np_std(q) ==
    FSqrt(FDiv(SumSeq(SquaredDeviations(q, np_mean(q)), Len(q)), <<Len(q), 1>>))

ZeroToOne(s) == IF s[1] = 0 THEN <<1, 1>> ELSE s

ScaleBy(X, centers, scales) ==
    [i \in 1..Len(X) |->
        [c \in 1..NumCols(X) |-> FDiv(FSub(X[i][c], centers[c]), scales[c])]]

_scaleMinMax(X) ==
    LET Xmin  == [c \in 1..NumCols(X) |-> ColMin(Column(X, c))]
        Xmax  == [c \in 1..NumCols(X) |-> ColMax(Column(X, c))]
        scale0 == [c \in 1..NumCols(X) |-> ZeroToOne(FSub(Xmax[c], Xmin[c]))]
    IN  [X_scaled |-> ScaleBy(X, Xmin, scale0), centers |-> Xmin, scales |-> scale0]

_scaleNormalize(X) ==
    LET means  == [c \in 1..NumCols(X) |-> np_mean(Column(X, c))]
        scales == [c \in 1..NumCols(X) |-> ZeroToOne(np_std(Column(X, c)))]
    IN  [X_scaled |-> ScaleBy(X, means, scales), centers |-> means, scales |-> scales]

_inverse_scale_no_centers(X, centers, scales) ==
    [i \in 1..Len(X) |-> [c \in 1..NumCols(X) |-> FMul(X[i][c], scales[c])]]

_inverse_scale(X, centers, scales) ==
    [i \in 1..Len(X) |->
        [c \in 1..NumCols(X) |-> FAdd(FMul(X[i][c], scales[c]), centers[c])]]

\* Rows of training matrices with two features: the first feature takes
\* the values 0, 7/2, 5, 1, 3 and the second 3, 3, 3, 1, 0.
ScaleRows ==
    {<<<<0, 1>>, <<3, 1>>>>, <<<<7, 2>>, <<3, 1>>>>, <<<<5, 1>>, <<3, 1>>>>,
     <<<<1, 1>>, <<1, 1>>>>, <<<<3, 1>>, <<0, 1>>>>}

ScaleMatrices == [1..NTrain -> ScaleRows]

ScalingMethods == {"MinMax", "Normalization"}

InitScale ==
    /\ \E X \in ScaleMatrices, method \in ScalingMethods :
          sc = [pc |-> "start", training |-> X, scaling_method |-> method,
                scaled |-> None, centers |-> None, scales |-> None,
                unscaled |-> None]
    /\ PipeIdle
    /\ dm = Off
    /\ pk = Off
    /\ gs = Off
    /\ ito = Off
    /\ FnIdle

ScaleTraining ==
    /\ sc.pc = "start"
    /\ LET res == IF sc.scaling_method = "MinMax"
                  THEN _scaleMinMax(sc.training)
                  ELSE _scaleNormalize(sc.training)
       IN  sc' = [sc EXCEPT !.scaled = Some(res.X_scaled),
                            !.centers = Some(res.centers),
                            !.scales = Some(res.scales),
                            !.pc = "scaled"]
    /\ UNCHANGED notScaleVars

InverseScaleTraining ==
    /\ sc.pc = "scaled"
    /\ sc' = [sc EXCEPT
                !.unscaled = Some(_inverse_scale(Get(sc.scaled), Get(sc.centers),
                                                 Get(sc.scales))),
                !.pc = "done"]
    /\ UNCHANGED notScaleVars

NextScale ==
    \/ ScaleTraining
    \/ InverseScaleTraining

SpecScale == InitScale /\ [][NextScale]_vars

(***************************************************************************)
(* Claims about scaling.                                                   *)
(***************************************************************************)
ConstantColumn(X, c) == \A i \in 1..Len(X) : X[i][c] = X[1][c]

\* C13: after scale() in either mode every entry of the stored scale is
\* non-zero, and it is exactly 1 for every constant column of the training
\* data; the stored scale is the one with which the data were scaled.
C13_ScaleOfConstantColumn ==
    sc.pc \in {"scaled", "done"} =>
        /\ \A c \in 1..NumCols(sc.training) : Get(sc.scales)[c][1] # 0
        /\ \A c \in 1..NumCols(sc.training) :
              ConstantColumn(sc.training, c) => Get(sc.scales)[c] = <<1, 1>>
        /\ Get(sc.scaled) = ScaleBy(sc.training, Get(sc.centers), Get(sc.scales))

Abs(n) == IF n < 0 THEN -n ELSE n

Max3(a, b, c) ==
    IF a >= b /\ a >= c THEN a ELSE IF b >= c THEN b ELSE c

\* The numerator of the floating-point number x over the denominator D, a
\* multiple of x's own.
Over(x, D) == x[1] * (D \div x[2])

\* |y - x| <= u*|x| + ((1+u)^4 - (1+u))*|x - center| with u = 1/b,
\* b = 2^MantissaBits, multiplied through by b^4 and by the common
\* denominator D of the three numbers.
WithinRoundingOver(y, x, center, D, b) ==
    b * b * b * b * Abs(Over(y, D) - Over(x, D))
        <= b * b * b * Abs(Over(x, D))
           + ((b + 1) * (b + 1) * (b + 1) * (b + 1) - (b + 1) * b * b * b)
             * Abs(Over(x, D) - Over(center, D))

WithinRounding(y, x, center) ==
    WithinRoundingOver(y, x, center, Max3(y[2], x[2], center[2]), 2^MantissaBits)

\* C14: scaling followed by inverse scaling returns X up to floating-point
\* rounding, in both modes and for constant columns too: every element y of
\* _inverse_scale(scale(X), centers, scales) differs from the element x of X
\* by at most u*|x| + ((1+u)^4 - (1+u))*|x - center|, u the unit roundoff.
C14_RoundTripWithinRounding ==
    sc.pc = "done" =>
        \A i \in 1..NTrain : \A c \in 1..NumCols(sc.training) :
            WithinRounding(Get(sc.unscaled)[i][c], sc.training[i][c],
                           Get(sc.centers)[c])

\* C14 as stated: scaling followed by inverse scaling is the identity.
C14_RoundTripIdentity ==
    sc.pc = "done" => Get(sc.unscaled) = sc.training

C14_Witness ==
    /\ sc.pc = "done"
    /\ sc.scaling_method = "Normalization"
    /\ ~ConstantColumn(sc.training, 1)
    /\ ConstantColumn(sc.training, 2)
    /\ Get(sc.unscaled) # sc.training

(***************************************************************************)
(* One integration step on numbers: _simulate_ito_step for one entry of    *)
(* the matrices, in exact rational arithmetic.  The force L, which the     *)
(* code computes from Zhalf, is an input, and so is the square root of f0. *)
(***************************************************************************)
RECURSIVE Gcd(_, _)
Gcd(x, y) == IF y = 0 THEN x ELSE Gcd(y, x % y)

Lowest(a) ==
    <<a[1] \div Gcd(IF a[1] < 0 THEN -a[1] ELSE a[1], a[2]),
      a[2] \div Gcd(IF a[1] < 0 THEN -a[1] ELSE a[1], a[2])>>

QAdd(a, b) == Lowest(RatAdd(a, b))

QSub(a, b) == Lowest(RatSub(a, b))

QMul(a, b) == Lowest(RatMul(a, b))

QDiv(a, b) == Lowest(RatDiv(a, b))

One == <<1, 1>>

Zero == <<0, 1>>

StepB(f0, dr) == QDiv(QMul(f0, dr), <<4, 1>>)

StepZhalf(Z, Y, dr) == QAdd(Z, QMul(QDiv(dr, <<2, 1>>), Y))

StepYnext_without_force(Y, L, dW, sqrt_f0, dr, b) ==
    QAdd(QMul(QDiv(QSub(One, b), QAdd(One, b)), Y),
         QMul(QDiv(sqrt_f0, QAdd(One, b)), dW))

StepYnext(Y, L, dW, sqrt_f0, dr, b) ==
    QAdd(QAdd(QMul(QDiv(QSub(One, b), QAdd(One, b)), Y),
              QMul(QDiv(dr, QAdd(One, b)), L)),
         QMul(QDiv(sqrt_f0, QAdd(One, b)), dW))

StepZnext(Zhalf, Ynext, dr) == QAdd(Zhalf, QMul(QDiv(dr, <<2, 1>>), Ynext))

StepValues(Z, Y, L, dW, sqrt_f0, dr) ==
    [Znext |-> StepZnext(StepZhalf(Z, Y, dr),
                         StepYnext(Y, L, dW, sqrt_f0, dr,
                                   StepB(QMul(sqrt_f0, sqrt_f0), dr)),
                         dr),
     Ynext |-> StepYnext(Y, L, dW, sqrt_f0, dr, StepB(QMul(sqrt_f0, sqrt_f0), dr))]

StepPositions == {<<-1, 1>>, <<0, 1>>, <<2, 1>>}

StepMomenta == {<<0, 1>>, <<1, 1>>}

StepForces == {<<-1, 1>>, <<0, 1>>, <<3, 2>>}

StepNoises == {<<0, 1>>, <<1, 2>>}

StepRootsF0 == {<<1, 1>>, <<2, 1>>, <<1, 2>>}

StepSizes == {<<1, 10>>, <<1, 1>>}

InitStep ==
    /\ \E Z \in StepPositions, Y \in StepMomenta, L \in StepForces,
          dW \in StepNoises, r \in StepRootsF0, dr \in StepSizes :
          sp = [pc |-> "start", Z |-> Z, Y |-> Y, L |-> L, dW |-> dW,
                sqrt_f0 |-> r, f0 |-> QMul(r, r), dr |-> dr,
                Znext |-> None, Ynext |-> None]
    /\ PipeIdle
    /\ dm = Off
    /\ pk = Off
    /\ gs = Off
    /\ ito = Off
    /\ sc = Off
    /\ pj = Off
    /\ cw = Off

ItoStep ==
    /\ sp.pc = "start"
    /\ LET res == StepValues(sp.Z, sp.Y, sp.L, sp.dW, sp.sqrt_f0, sp.dr)
       IN  sp' = [sp EXCEPT !.Znext = Some(res.Znext),
                            !.Ynext = Some(res.Ynext),
                            !.pc = "done"]
    /\ UNCHANGED notStepVars

NextStep == ItoStep

SpecStep == InitStep /\ [][NextStep]_vars

StepAtRest == sp.pc = "done" /\ sp.Y = Zero /\ sp.dW = Zero

\* C21: for one step with dW = 0 and Y = 0 the position moves by the force
\* term only, Z_next = Z + dr^2 / (2 (1 + f0 dr / 4)) * L, so Z_next = Z
\* exactly when L = 0.
C21_StepAtRest ==
    StepAtRest =>
        /\ Get(sp.Znext)
             = QAdd(sp.Z,
                    QMul(QDiv(QMul(sp.dr, sp.dr),
                              QMul(<<2, 1>>,
                                   QAdd(One, QDiv(QMul(sp.f0, sp.dr), <<4, 1>>)))),
                         sp.L))
        /\ (Get(sp.Znext) = sp.Z) <=> (sp.L = Zero)

\* C21 as stated: with dW = 0 and Y = 0, Z_next = Z for every L.
C21_FixedPoint == StepAtRest => Get(sp.Znext) = sp.Z

C21_Witness ==
    /\ StepAtRest
    /\ sp.L # Zero
    /\ Get(sp.Znext) # sp.Z

(***************************************************************************)
(* _sample_projection on matrices of rationals.  A matrix is a sequence of *)
(* rows; the basis g has one or two columns, so that the inverse of g'g is *)
(* that of a 1x1 or a 2x2 matrix.                                          *)
(***************************************************************************)
MaxDim == 2

Rows(A) == Len(A)

Cols(A) == Len(A[1])

Shape(A) == <<Rows(A), Cols(A)>>

MatT(A) == [j \in 1..Cols(A) |-> [i \in 1..Rows(A) |-> A[i][j]]]

RECURSIVE DotTo(_, _, _, _, _)
DotTo(A, B, i, j, k) ==
    IF k = 0 THEN Zero
    ELSE QAdd(DotTo(A, B, i, j, k - 1), QMul(A[i][k], B[k][j]))

MatDot(A, B) ==
    [i \in 1..Rows(A) |-> [j \in 1..Cols(B) |-> DotTo(A, B, i, j, Cols(A))]]

Det(M) ==
    IF Rows(M) = 1 THEN M[1][1]
    ELSE QSub(QMul(M[1][1], M[2][2]), QMul(M[1][2], M[2][1]))

\* np.linalg.inv of a non-singular 1x1 or 2x2 matrix.
MatInv(M) ==
    IF Rows(M) = 1 THEN <<<<QDiv(One, M[1][1])>>>>
    ELSE <<<<QDiv(M[2][2], Det(M)), QDiv(QSub(Zero, M[1][2]), Det(M))>>,
           <<QDiv(QSub(Zero, M[2][1]), Det(M)), QDiv(M[1][1], Det(M))>>>>

ProjectionA(g) == MatDot(g, MatInv(MatDot(MatT(g), g)))

\* if H.shape[1] != a.shape[0]: H = H.T
OrientH(H, a) == IF Cols(H) # Rows(a) THEN MatT(H) ELSE H

_sample_projection(H, g) ==
    IF Det(MatDot(MatT(g), g)) = Zero
    THEN [kind |-> "raise", exc |-> "LinAlgError", Z |-> <<>>, a |-> <<>>]
    ELSE IF Cols(OrientH(H, ProjectionA(g))) # Rows(ProjectionA(g))
         THEN [kind |-> "raise", exc |-> "ValueError", Z |-> <<>>, a |-> <<>>]
         ELSE [kind |-> "return", exc |-> "none",
               Z |-> MatDot(OrientH(H, ProjectionA(g)), ProjectionA(g)),
               a |-> ProjectionA(g)]

ProjEntries == {<<0, 1>>, <<1, 1>>}

TrainingMatrices(N, nu) == [1..N -> [1..nu -> ProjEntries]]

\* Bases of N rows and m columns: the first m unit vectors, and the same
\* with the vector of ones in place of the first.
UnitBasis(N, m) == [i \in 1..N |-> [j \in 1..m |-> IF i = j THEN One ELSE Zero]]

OnesBasis(N, m) ==
    [i \in 1..N |-> [j \in 1..m |-> IF j = 1 \/ i = j THEN One ELSE Zero]]

Bases(N) ==
    {UnitBasis(N, m) : m \in {k \in 1..2 : k <= N}}
        \cup {OnesBasis(N, m) : m \in {k \in 1..2 : k <= N}}

InitProj ==
    /\ \E N \in 1..MaxDim, nu \in 1..MaxDim :
          \E X \in TrainingMatrices(N, nu), g \in Bases(N), transposed \in BOOLEAN :
              pj = [pc |-> "start", N |-> N, nu |-> nu, m |-> Cols(g),
                    training |-> X, transposed |-> transposed,
                    H |-> IF transposed THEN MatT(X) ELSE X,
                    g |-> g, result |-> None]
    /\ PipeIdle
    /\ dm = Off
    /\ pk = Off
    /\ gs = Off
    /\ ito = Off
    /\ sc = Off
    /\ sp = Off
    /\ cw = Off

SampleProjectionCall ==
    /\ pj.pc = "start"
    /\ pj' = [pj EXCEPT !.result = Some(_sample_projection(pj.H, pj.g)),
                        !.pc = "done"]
    /\ UNCHANGED notProjVars

NextProj == SampleProjectionCall

SpecProj == InitProj /\ [][NextProj]_vars

\* C23: for every training matrix of N rows and nu columns, passed as N x nu
\* or as nu x N, and every basis g of N rows and m independent columns,
\* _sample_projection returns a = g (g'g)^-1 of shape N x m and
\* Z0 = H' a of shape nu x m, H being the N x nu training matrix; also for
\* nu = N.
C23_ProjectionOfTraining ==
    pj.pc = "done" =>
        /\ Get(pj.result).kind = "return"
        /\ Get(pj.result).a = ProjectionA(pj.g)
        /\ Shape(Get(pj.result).a) = <<pj.N, pj.m>>
        /\ Shape(Get(pj.result).Z) = <<pj.nu, pj.m>>
        /\ Get(pj.result).Z = MatDot(MatT(pj.training), ProjectionA(pj.g))

(***************************************************************************)
(* _get_conditional_weights.  W has Nsim rows and nw columns of integers.  *)
(* The variance of column j is VarNum(W, j) / Nsim^2.  The bandwidth sw is *)
(* the positive number with 1/(2 sw^2) = ln(2) * VarProduct(W) / Nsim^2,   *)
(* so that every exponent -|(W[i] - w0)/w_std|^2 / (2 sw^2) is an integer  *)
(* multiple of ln 2 and exp of it a power of two; as in floating point,    *)
(* exp underflows to 0 below a least exponent.  A division by a zero       *)
(* standard deviation gives nan or inf in every row, and then every weight *)
(* is nan.                                                                 *)
(***************************************************************************)
MaxRows == 4

MaxBatches == 3

MinExponent == 6

RECURSIVE ColSum(_, _, _)
ColSum(W, j, i) == IF i = 0 THEN 0 ELSE ColSum(W, j, i - 1) + W[i][j]

RECURSIVE ColSumSq(_, _, _)
ColSumSq(W, j, i) == IF i = 0 THEN 0 ELSE ColSumSq(W, j, i - 1) + W[i][j] * W[i][j]

\* Nsim^2 times the variance of column j (np.std(W, axis=0) squared).
VarNum(W, j) ==
    Len(W) * ColSumSq(W, j, Len(W)) - ColSum(W, j, Len(W)) * ColSum(W, j, Len(W))

RECURSIVE VarProductTo(_, _)
VarProductTo(W, j) == IF j = 0 THEN 1 ELSE VarProductTo(W, j - 1) * VarNum(W, j)

VarProduct(W) == VarProductTo(W, Len(W[1]))

\* ((row[j] - w0[j]) / w_std[j])^2 / (2 sw^2), in units of ln 2.
EntryExponent(W, row, w0, j) ==
    (row[j] - w0[j]) * (row[j] - w0[j]) * (VarProduct(W) \div VarNum(W, j))

RECURSIVE RowExponentTo(_, _, _, _)
RowExponentTo(W, row, w0, j) ==
    IF j = 0 THEN 0
    ELSE RowExponentTo(W, row, w0, j - 1) + EntryExponent(W, row, w0, j)

\* -1/(2*sw**2) * np.linalg.norm((row - w0)/w_std)**2, in units of ln 2.
RowNorm(W, row, w0) == 0 - RowExponentTo(W, row, w0, Len(W[1]))

SerialNorms(W, w0) == [i \in 1..Len(W) |-> RowNorm(W, W[i], w0)]

\* The norms of the batches W[i*batch_size : (i+1)*batch_size], flattened.
BatchNorms(W, w0, batches, batch_size) ==
    [i \in 1..(batches * batch_size) |-> RowNorm(W, W[i], w0)]

\* r > 1: the norms of the rows W[-r:] (axis=1); r == 1: the norm of
\* W[-1:], an array of one row, along axis 0, which is one number per
\* column.
RemainderNorms(W, w0, r) ==
    IF r > 1 THEN [i \in 1..r |-> RowNorm(W, W[Len(W) - r + i], w0)]
    ELSE IF r = 1 THEN [j \in 1..Len(W[1]) |-> 0 - EntryExponent(W, W[Len(W)], w0, j)]
    ELSE <<>>

\* r = Nsim % batch_size
BatchRemainder(Nsim, batches, batch_size) == Nsim % batch_size

ParallelNorms(W, w0, batches) ==
    BatchNorms(W, w0, batches, Len(W) \div batches)
        \o RemainderNorms(W, w0,
                          BatchRemainder(Len(W), batches, Len(W) \div batches))

\* The number of norms the parallel branch collects.
ParallelLength(Nsim, nw, batches) ==
    batches * (Nsim \div batches)
        + (IF BatchRemainder(Nsim, batches, Nsim \div batches) > 1
           THEN BatchRemainder(Nsim, batches, Nsim \div batches)
           ELSE IF BatchRemainder(Nsim, batches, Nsim \div batches) = 1 THEN nw
           ELSE 0)

RECURSIVE MaxTo(_, _)
MaxTo(q, i) ==
    IF i = 1 THEN q[1]
    ELSE IF q[i] > MaxTo(q, i - 1) THEN q[i] ELSE MaxTo(q, i - 1)

\* np.exp(x) for x = e * ln 2, e <= 0.
Exp2(e) == IF e < 0 - MinExponent THEN Zero ELSE <<1, 2^(0 - e)>>

RECURSIVE QSumTo(_, _)
QSumTo(q, i) == IF i = 0 THEN Zero ELSE QAdd(QSumTo(q, i - 1), q[i])

w_dist(w_norms) ==
    [i \in 1..Len(w_norms) |-> Exp2(w_norms[i] - MaxTo(w_norms, Len(w_norms)))]

Normalized(dist) ==
    [i \in 1..Len(dist) |-> QDiv(dist[i], QSumTo(dist, Len(dist)))]

Weights(w) == [kind |-> "return", weights |-> w, exc |-> "none"]

NanWeights(n) == [kind |-> "nan", weights |-> [i \in 1..n |-> "nan"], exc |-> "none"]

WeightsRaised(exc) == [kind |-> "raise", weights |-> <<>>, exc |-> exc]

_get_conditional_weights(W, w0, parallel, batches) ==
    IF parallel /\ Len(W) \div batches = 0
    THEN WeightsRaised("ZeroDivisionError")
    ELSE IF VarProduct(W) = 0
         THEN NanWeights(IF parallel THEN ParallelLength(Len(W), Len(W[1]), batches)
                         ELSE Len(W))
         ELSE IF parallel
              THEN Weights(Normalized(w_dist(ParallelNorms(W, w0, batches))))
              ELSE Weights(Normalized(w_dist(SerialNorms(W, w0))))

WeightEntries == {0, 1}

InitWeights ==
    /\ \E Nsim \in 1..MaxRows, nw \in 1..2 :
          \E W \in [1..Nsim -> [1..nw -> WeightEntries]],
             w0 \in [1..nw -> WeightEntries],
             parallel \in BOOLEAN, batches \in 1..MaxBatches :
              /\ (~parallel => batches = 2)
              /\ cw = [pc |-> "start", Nsim |-> Nsim, nw |-> nw, W |-> W, w0 |-> w0,
                       parallel |-> parallel, batches |-> batches, result |-> None]
    /\ PipeIdle
    /\ dm = Off
    /\ pk = Off
    /\ gs = Off
    /\ ito = Off
    /\ sc = Off
    /\ sp = Off
    /\ pj = Off

GetConditionalWeights ==
    /\ cw.pc = "start"
    /\ cw' = [cw EXCEPT
                !.result = Some(_get_conditional_weights(cw.W, cw.w0, cw.parallel,
                                                         cw.batches)),
                !.pc = "done"]
    /\ UNCHANGED notWeightsVars

NextWeights == GetConditionalWeights

SpecWeights == InitWeights /\ [][NextWeights]_vars

(***************************************************************************)
(* Claims about the conditioning weights.                                  *)
(***************************************************************************)
WeightsReturned == cw.pc = "done" /\ Get(cw.result).kind # "raise"

\* C24: the weights returned by _get_conditional_weights are all
\* non-negative and sum to 1, for every data set W, query point w0 and
\* bandwidth sw > 0.
C24_WeightsSumToOne ==
    WeightsReturned =>
        /\ Get(cw.result).kind = "return"
        /\ \A i \in 1..Len(Get(cw.result).weights) :
              Get(cw.result).weights[i][1] >= 0
        /\ QSumTo(Get(cw.result).weights, Len(Get(cw.result).weights)) = One

\* C30: with parallel=True and Nsim >= batches >= 1 the returned weight
\* vector has length Nsim and equals the one returned with parallel=False.
C30_ParallelEqualsSerial ==
    (cw.pc = "done" /\ cw.parallel /\ cw.Nsim >= cw.batches) =>
        /\ Len(Get(cw.result).weights) = cw.Nsim
        /\ Get(cw.result) = _get_conditional_weights(cw.W, cw.w0, FALSE, cw.batches)

(***************************************************************************)
(* Claims about the reconstruction the orchestrator measures and the       *)
(* summary it writes (SpecPipe).                                           *)
(***************************************************************************)
AtRmse == entry \in {"run", "run_dmaps"} /\ pc = "mse"

AtSummary == entry \in {"run", "run_dmaps"} /\ pc = "make_summary"

\* The projection and its inverse both ran in the current call on a present
\* [H] and [g].
ProjectionRan ==
    /\ "sample_projection" \in Range(trace)
    /\ "inverse_sample_projection" \in Range(trace)
    /\ ~IsNone(ProjectionSource(plom_dict))
    /\ ~IsNone(ProjectionTarget(plom_dict))
    /\ ~IsNone(plom_dict.ito.Z0)

\* g.Z0^T, and its image under the inverses of the forward stages that made
\* the projection source: inverse PCA then inverse scaling for 'pca' (the
\* latter when the PCA input was the scaled data), inverse scaling for
\* 'scaling', nothing for 'data'.
Reconstruction(pd) ==
    T2("_inverse_sample_projection", Get(pd.ito.Z0), Get(ProjectionTarget(pd)))

BackThroughPca(pd, X) ==
    T3("_inverse_pca", X,
       Get(IF pd.options.pca_scale_evecs THEN pd.pca.scaled_evecs_inv
           ELSE pd.pca.evecs),
       Get(pd.pca.mean))

BackThroughScaling(pd, X) ==
    T3("_inverse_scale", X, Get(pd.scaling.centers), Get(pd.scaling.scales))

ProjectionImage(pd) ==
    IF pd.options.projection_source = "pca"
    THEN IF pd.options.scaling
         THEN BackThroughScaling(pd, BackThroughPca(pd, Reconstruction(pd)))
         ELSE BackThroughPca(pd, Reconstruction(pd))
    ELSE IF pd.options.projection_source = "scaling"
         THEN BackThroughScaling(pd, Reconstruction(pd))
    ELSE Reconstruction(pd)

\* C25: when run or run_dmaps computes the RMSE after the projection ran,
\* data['reconst_training'] is the image of g.Z0^T under exactly the
\* inverses of the forward stages that produced the projection source; it
\* has not been replaced by a reconstruction that bypasses the projection.
C25_RmseFromProjection ==
    (AtRmse /\ ProjectionRan) =>
        plom_dict.data.reconst_training = Some(ProjectionImage(plom_dict))

\* C26: in run and run_dmaps, data['reconst_training'] is not None at the
\* point where the RMSE is computed, for every combination of the options.
C26_ReconstructionPresent ==
    AtRmse => ~IsNone(plom_dict.data.reconst_training)

\* C29: when run or run_dmaps reaches the summary step, every entry
\* make_summary reads is present and the eigenvalue index dimension+1 is at
\* most N-1, so make_summary raises nothing.
C29_SummaryInBounds ==
    AtSummary =>
        /\ ~IsNone(plom_dict.pca.training)
        /\ plom_dict.options.dmaps =>
              /\ ~IsNone(plom_dict.dmaps.dimension)
              /\ ~IsNone(plom_dict.dmaps.eigenvalues)
              /\ Get(plom_dict.dmaps.dimension) + 1 <= NTrain - 1
        /\ make_summary(plom_dict).ok

(***************************************************************************)
(* Claims about the loops of _get_dmaps_optimal_epsilon.                   *)
(***************************************************************************)
AutoSearch == dm.mode = "auto" /\ dm.pc # "off"

C28_ScanBracket ==
    [][(dm.pc = "scan" /\ dm'.pc = "bisect") =>
          /\ dm'.lower_bound < dm'.upper_bound
          /\ get_dmaps_dim_from_epsilon(dm'.H, dm'.upper_bound, dm'.L)
                 <= MinOfSeq(m_target_list(dm'.H, dm'.L))]_vars

====
